---- MODULE Spec2Model ----
(***************************************************************************)
(* A model of two collectd plugins:                                        *)
(*   - write_influxdb_udp.c : the line-protocol UDP shipper (send buffer,  *)
(*     endpoints, write / flush / shutdown callbacks);                     *)
(*   - statsd.c : the StatsD listener, metric table and periodic read.     *)
(* The two plugins share no state; each specification below drives one of  *)
(* them and leaves the other's variables unchanged.                        *)
(***************************************************************************)
EXTENDS Integers, Sequences, FiniteSets, TLC

VARIABLES
  \* ---- write_influxdb_udp.c ----
  wifxudp_config_packet_size, \* size_t, MaxPacketSize
  wifxudp_config_ttl,         \* int, 0 when TimeToLive was never given
  sending_sockets,            \* the sockent_t list, in Server-directive order
  send_buffer,                \* the points copied into send_buffer: <<[id, off, len]>>
  send_buffer_ptr,            \* send_buffer_ptr - send_buffer
  send_buffer_fill,           \* int
  send_buffer_last_update,    \* cdtime_t
  now,                        \* what cdtime() returns
  wifx_state,                 \* "running" | "shutdown" | "crashed"
  written,                    \* history: the points write accepted, <<[id, len]>>
  flushed                     \* history: one entry per flush_buffer() call

  \* ---- statsd.c ----
VARIABLES
  conf,            \* the conf_* options statsd_config stored
  metrics_tree,    \* key |-> statsd_metric_t
  net_buffer,      \* what statsd_parse_buffer has still to split, or Null
  dispatched,      \* history: the plugin_dispatch_values() calls of the last
                   \* statsd_read, in call order
  read_pre,        \* history: metrics_tree when the last statsd_read began
  read_post,       \* history: metrics_tree when the last statsd_read ended
  line_log,        \* history: the last line statsd_parse_line was given
  net_intents,     \* ghost: what the sender meant by the lines still unparsed
  ghost,           \* ghost: key |-> what the sender has sent for that cell
  ghost_pre,       \* ghost: ghost when the last statsd_read began
  n_datagrams,     \* datagrams received so far
  n_reads          \* statsd_read calls so far

svars == <<conf, metrics_tree, net_buffer, dispatched, read_pre, read_post,
           line_log,
           net_intents, ghost, ghost_pre, n_datagrams, n_reads>>

bvars == <<wifxudp_config_packet_size, wifxudp_config_ttl, sending_sockets,
           send_buffer, send_buffer_ptr, send_buffer_fill,
           send_buffer_last_update, now, wifx_state, written, flushed>>

\* The two mutexes, where each thread stands, and what the calls did.
VARIABLES
  send_buffer_lock,         \* write_influxdb_udp.c: the thread holding it, or "free"
  wifx_pc,                  \* thread |-> where it stands in its callback
  wire,                     \* history: the last two flush_buffer() calls, with
                            \* the system calls each endpoint saw and how
                            \* its connect went
  last_call,                \* history: the last callback that ran, with the
                            \* buffer as it found it
  metrics_lock,             \* statsd.c: the thread holding it, or "free"
  read_iter,                \* where statsd_read stands in its iteration
  net_pc,                   \* where statsd_network_thread stands
  network_thread_shutdown,  \* the flag statsd_shutdown sets
  sigterm_pending,          \* pthread_kill(SIGTERM) sent and not yet delivered
  shutdown_pc               \* where statsd_shutdown stands

xvars == <<send_buffer_lock, wifx_pc, wire, last_call, metrics_lock,
           read_iter, net_pc, network_thread_shutdown, sigterm_pending,
           shutdown_pc>>

vars == <<bvars, svars, xvars>>

(***************************************************************************)
(* Bounds of the model.                                                    *)
(***************************************************************************)
MaxWrites == 3      \* write callbacks per run
MaxTime == 2        \* cdtime() runs over 0..MaxTime
MaxServers == 1     \* Server directives
MaxDatagrams == 3   \* datagrams the statsd listener receives per run
MaxReads == 2       \* statsd_read calls per run
MaxParseDatagrams == 2  \* datagrams per run when they have several lines

\* MaxPacketSize values: the least, the default, the greatest.
PacketSizes == {1024, 1452, 65535}
\* What format_influxdb_value_list() returns for a point: its length, bounded
\* by the NET_DEFAULT_PACKET_SIZE bytes of write's local buffer.
NET_DEFAULT_PACKET_SIZE == 1452
PointLens == {1, 100, 904, NET_DEFAULT_PACKET_SIZE}
\* ... or 0 (only NaN values) or -1 (formatting failed).
FormatResults == PointLens \cup {0, -1}
\* The timeouts the daemon hands to the flush callback.
FlushTimeouts == {0, 1}

(***************************************************************************)
(* size_t arithmetic.  wifxudp_config_packet_size is a size_t, so          *)
(* `wifxudp_config_packet_size - send_buffer_fill < status' is evaluated   *)
(* on unsigned 64-bit values: when fill exceeds the packet size the        *)
(* difference wraps to 2^64 - (fill - size).  A size_t value is kept as    *)
(* [wrapped, v]: v itself, or 2^64 - v when wrapped.                       *)
(***************************************************************************)
SizeSub(a, b) ==
  IF a >= b THEN [wrapped |-> FALSE, v |-> a - b]
            ELSE [wrapped |-> TRUE, v |-> b - a]

\* x < n for a size_t x and a small non-negative int n converted to size_t:
\* a wrapped x is at least 2^64 - 2^31, more than any n the program compares.
SizeLess(x, n) == (~x.wrapped) /\ x.v < n

(***************************************************************************)
(* Endpoints (sockent_t).  node is the Server directive the endpoint was   *)
(* made for; fd is -1 or a descriptor; addr is "NULL" or "cached".         *)
(***************************************************************************)
sockent_create_Interval(node) ==
  [node |-> node, fd |-> -1, addr |-> "NULL", resolve_interval |-> 1,
   next_resolve_reconnect |-> 0]

sockent_create(node) ==
  [node |-> node, fd |-> -1, addr |-> "NULL", resolve_interval |-> 0,
   next_resolve_reconnect |-> 0]

sockent_add_First(list, se) == <<se>> \o list

\* sockent_add: the endpoint goes to the end of the list.
sockent_add(list, se) == list \o <<se>>

\* wifxudp_config after n Server directives: node 1, then node 2, ...
RECURSIVE wifxudp_config_set_server(_)
wifxudp_config_set_server(n) ==
  IF n = 0 THEN <<>>
  ELSE sockent_add(wifxudp_config_set_server(n - 1), sockent_create(n))

sockent_client_disconnect_Keep(se) == se

sockent_client_disconnect(se) == [se EXCEPT !.fd = -1, !.addr = "NULL"]

\* What the system calls of one connect attempt do: getaddrinfo fails, or
\* socket() fails for every address, or calloc() fails for every address, or
\* the first address succeeds.
ConnectEnv == {"ok", "gai_fail", "socket_fail", "calloc_fail"}
\* What the sendto() calls of one write_influxdb_udp_send_buffer end with,
\* in call order: the last one succeeds or fails for good.
SendEnv == {<<"ok">>, <<"fatal">>}
\* ... with a call interrupted (EINTR) or refused for now (EAGAIN) before it.
SendEnvRetry ==
  SendEnv \cup {<<"eintr", "ok">>, <<"eintr", "fatal">>}

Reconnect_AtDeadline(se, t) ==
  se.resolve_interval # 0 /\ se.next_resolve_reconnect <= t

\* `reconnect' of sockent_client_connect: the endpoint is stale.
Reconnect(se, t) == se.resolve_interval # 0 /\ se.next_resolve_reconnect < t

\* getaddrinfo() failed: sockent_client_connect returns before it touches
\* the endpoint.
ResolveFailed_Disconnect(se) == sockent_client_disconnect(se)

ResolveFailed(se) == se

\* calloc() of client->addr failed after socket() gave a descriptor: the
\* descriptor is closed and forgotten.
CallocFailed_SocketLeft(se) == [se EXCEPT !.fd = 3, !.addr = "NULL"]

CallocFailed(se) == [se EXCEPT !.fd = -1, !.addr = "NULL"]

\* Returns [se, status]; what it did is told by comparing se before and after
\* and by SocketReused.
SocketReused(se, t) == se.fd >= 0 /\ ~Reconnect(se, t)

sockent_client_connect(se, t, env) ==
  IF SocketReused(se, t) THEN [se |-> se, status |-> 0]
  ELSE IF env = "gai_fail" THEN [se |-> ResolveFailed(se), status |-> -1]
  ELSE
    LET dis == IF se.fd >= 0 THEN sockent_client_disconnect(se) ELSE se
        opened ==
          CASE env = "socket_fail" -> [dis EXCEPT !.fd = -1]
            [] env = "calloc_fail" -> CallocFailed(dis)
            [] OTHER -> [dis EXCEPT !.fd = 3, !.addr = "cached"]
    IN
    IF opened.fd < 0 THEN [se |-> opened, status |-> -1]
    ELSE IF opened.resolve_interval > 0
      THEN [se |-> [opened EXCEPT
                      !.next_resolve_reconnect = t + opened.resolve_interval],
            status |-> 0]
      ELSE [se |-> opened, status |-> 0]

\* One system call as an endpoint saw it.
Event(se, call, buffer) == [node |-> se.node, call |-> call, buffer |-> buffer]

\* The `while (42)' loop.  env = [conn, send]; returns [se, events]: the
\* endpoint afterwards and the calls made, in order.  buffer is what sendto
\* is given: [payload, size].
RECURSIVE SendLoop(_, _, _, _, _, _)
SendLoop(se, buffer, t, conn, sends, events) ==
  LET connected(c, ev) ==
        IF c.status # 0
          THEN [se |-> c.se, events |-> ev \o <<Event(se, "connect_failed",
                                                       buffer)>>]
        ELSE IF Head(sends) = "eintr"
          THEN SendLoop(c.se, buffer, t, conn, Tail(sends),
                        ev \o <<Event(se, "sendto_again", buffer)>>)
        ELSE IF Head(sends) = "fatal"
          THEN [se |-> sockent_client_disconnect(c.se),
                events |-> ev \o <<Event(se, "sendto_failed", buffer)>>]
        ELSE [se |-> c.se, events |-> ev \o <<Event(se, "sendto", buffer)>>]
  IN connected(sockent_client_connect(se, t, conn),
               IF SocketReused(se, t) THEN events
               ELSE events \o <<Event(se, "getaddrinfo", buffer)>>)

write_influxdb_udp_send_buffer(se, buffer, t, env) ==
  SendLoop(se, buffer, t, env.conn, env.send, <<>>)

\* The loop over the list: [socks, events].
RECURSIVE write_influxdb_send_buffers(_, _, _, _)
write_influxdb_send_buffers(socks, buffer, t, envs) ==
  IF socks = <<>> THEN [socks |-> <<>>, events |-> <<>>]
  ELSE
    LET rest(first, others) ==
          [socks |-> <<first.se>> \o others.socks,
           events |-> first.events \o others.events]
    IN rest(write_influxdb_udp_send_buffer(Head(socks), buffer, t, Head(envs)),
            write_influxdb_send_buffers(Tail(socks), buffer, t, Tail(envs)))

\* The outcomes that can differ for the endpoints as they are: a connected
\* endpoint that is not stale makes no connect system call.
EnvsFor(socks, t) ==
  { envs \in [DOMAIN socks -> [conn : ConnectEnv, send : SendEnv]] :
      \A i \in DOMAIN socks :
        sockent_client_connect(socks[i], t, "gai_fail").status = 0
          => envs[i].conn = "ok" }

\* The same with retried sendto calls, and one way for connect to fail.
EnvsRetryFor(socks, t) ==
  { envs \in [DOMAIN socks -> [conn : {"ok", "gai_fail"},
                                send : SendEnvRetry]] :
      \A i \in DOMAIN socks :
        SocketReused(socks[i], t) => envs[i].conn = "ok" }

(***************************************************************************)
(* The send buffer.  The shipper's mutable state is threaded through the   *)
(* helpers as a record b = [socks, buf, ptr, fill, last, flushed].         *)
(***************************************************************************)
BState ==
  [socks |-> sending_sockets, buf |-> send_buffer, ptr |-> send_buffer_ptr,
   fill |-> send_buffer_fill, last |-> send_buffer_last_update,
   flushed |-> flushed]

write_influxdb_udp_init_buffer(b) ==
  [b EXCEPT !.buf = <<>>, !.ptr = 0, !.fill = 0, !.last = 0]

\* The payload sendto() reads: send_buffer[0 .. fill).  Bytes past the
\* wifxudp_config_packet_size bytes malloc'ed for send_buffer are read out of
\* bounds; whether they still hold the point copied there is not defined
\* (oob_intact).
Payload(b, oob_intact) ==
  [i \in 1..Len(b.buf) |->
     [id |-> b.buf[i].id, len |-> b.buf[i].len,
      whole |-> (b.buf[i].off + b.buf[i].len <= wifxudp_config_packet_size)
                \/ oob_intact]]

\* What flush_buffer hands to write_influxdb_send_buffers.
Buffer(b, oob_intact) == [payload |-> Payload(b, oob_intact), size |-> b.fill]

flush_buffer(b, by, t, envs, oob_intact) ==
  write_influxdb_udp_init_buffer(
    [b EXCEPT
       !.socks = write_influxdb_send_buffers(b.socks, Buffer(b, oob_intact),
                                             t, envs).socks,
       !.flushed = Append(@, [payload |-> Payload(b, oob_intact),
                              size |-> b.fill, by |-> by])])

BUpdate(b) ==
  /\ sending_sockets' = b.socks
  /\ send_buffer' = b.buf
  /\ send_buffer_ptr' = b.ptr
  /\ send_buffer_fill' = b.fill
  /\ send_buffer_last_update' = b.last
  /\ flushed' = b.flushed

\* The preemptive-flush margin of write.
FlushMargin == 120

\* `wifxudp_config_packet_size - send_buffer_fill < status': the point does
\* not fit, flush first.
NeedsPreFlush(fill, status) ==
  SizeLess(SizeSub(wifxudp_config_packet_size, fill), status)

\* `wifxudp_config_packet_size - send_buffer_fill < 120': flush at once.
NeedsPostFlush(fill) ==
  SizeLess(SizeSub(wifxudp_config_packet_size, fill), FlushMargin)

ShutdownFlushes_Always(fill) == TRUE

\* `if (send_buffer_fill > 0)' of shutdown.
ShutdownFlushes(fill) == fill > 0

\* write_influxdb_udp_write with format_influxdb_value_list() returning status.
write_influxdb_udp_write(status) ==
  /\ wifx_state = "running"
  /\ IF status <= 0
     THEN UNCHANGED bvars
     ELSE
       LET b0 == BState
           pre == NeedsPreFlush(b0.fill, status)
       IN
       \E e1 \in (IF pre THEN EnvsFor(b0.socks, now) ELSE {<<>>}),
          oob \in (IF pre /\ b0.fill > wifxudp_config_packet_size
                     THEN BOOLEAN ELSE {TRUE}) :
         LET b1 == IF pre THEN flush_buffer(b0, "write_pre", now, e1, oob)
                          ELSE b0
             \* memcpy(send_buffer_ptr, buffer, status) past the end of the
             \* allocation is a heap overflow: the process may die of it.
             overflow == b1.ptr + status > wifxudp_config_packet_size
             b2 == [b1 EXCEPT
                      !.buf = Append(@, [id |-> Len(written) + 1,
                                         off |-> b1.ptr, len |-> status]),
                      !.fill = @ + status,
                      !.ptr = @ + status,
                      !.last = now]
             post == NeedsPostFlush(b2.fill)
         IN
         \E crash \in (IF overflow THEN BOOLEAN ELSE {FALSE}) :
           IF crash
           THEN /\ BUpdate(b1)
                /\ wifx_state' = "crashed"
                /\ UNCHANGED <<wifxudp_config_packet_size, wifxudp_config_ttl,
                               now, written>>
           ELSE
             \E e2 \in (IF post THEN EnvsFor(b2.socks, now) ELSE {<<>>}) :
               /\ BUpdate(IF post
                            THEN flush_buffer(b2, "write_post", now, e2, TRUE)
                            ELSE b2)
               /\ written' = Append(written, [id |-> Len(written) + 1,
                                               len |-> status])
               /\ UNCHANGED <<wifxudp_config_packet_size, wifxudp_config_ttl,
                              now, wifx_state>>

FlushDue_Early(fill, last, timeout, t) ==
  fill > 0 /\ ~(timeout > 0 /\ last + timeout > t + 1)

\* The gate of write_influxdb_udp_flush: something is buffered, and no
\* timeout was given or the last update is at least that old.
FlushDue(fill, last, timeout, t) ==
  fill > 0 /\ ~(timeout > 0 /\ last + timeout > t)

\* write_influxdb_udp_flush(timeout, ...) with the system calls going as e
\* says.
write_influxdb_udp_flush_calls(timeout, e, oob) ==
  /\ wifx_state = "running"
  /\ IF FlushDue(send_buffer_fill, send_buffer_last_update, timeout, now)
     THEN BUpdate(flush_buffer(BState, "flush", now, e, oob))
     ELSE UNCHANGED <<sending_sockets, send_buffer, send_buffer_ptr,
                      send_buffer_fill, send_buffer_last_update, flushed>>
  /\ UNCHANGED <<wifxudp_config_packet_size, wifxudp_config_ttl, now,
                 wifx_state, written>>

\* write_influxdb_udp_flush(timeout, ...)
write_influxdb_udp_flush(timeout) ==
  \E e \in (IF FlushDue(send_buffer_fill, send_buffer_last_update, timeout,
                        now)
              THEN EnvsFor(sending_sockets, now) ELSE {<<>>}),
     oob \in (IF send_buffer_fill > wifxudp_config_packet_size
                THEN BOOLEAN ELSE {TRUE}) :
    write_influxdb_udp_flush_calls(timeout, e, oob)

\* write_influxdb_udp_shutdown: flush what is left, free the buffer,
\* disconnect and destroy every endpoint.
write_influxdb_udp_shutdown ==
  /\ wifx_state = "running"
  /\ \E e \in EnvsFor(sending_sockets, now),
        oob \in (IF send_buffer_fill > wifxudp_config_packet_size
                   THEN BOOLEAN ELSE {TRUE}) :
       LET b1 == IF ShutdownFlushes(send_buffer_fill)
                   THEN flush_buffer(BState, "shutdown", now, e, oob)
                   ELSE BState
       IN BUpdate([b1 EXCEPT
                     !.socks = [i \in DOMAIN b1.socks |->
                                  sockent_client_disconnect(b1.socks[i])]])
  /\ wifx_state' = "shutdown"
  /\ UNCHANGED <<wifxudp_config_packet_size, wifxudp_config_ttl, now, written>>

\* Time passes.
Tick ==
  /\ now < MaxTime
  /\ now' = now + 1
  /\ UNCHANGED <<wifxudp_config_packet_size, wifxudp_config_ttl,
                 sending_sockets, send_buffer, send_buffer_ptr,
                 send_buffer_fill, send_buffer_last_update, wifx_state,
                 written, flushed>>

(***************************************************************************)
(* The shipper after write_influxdb_udp_config and write_influxdb_udp_init:*)
(* a MaxPacketSize the directive accepts, MaxServers or fewer Server       *)
(* directives (at least one, or write is never registered), the buffer     *)
(* initialised.                                                            *)
(***************************************************************************)
NullStr == [null |-> TRUE, s |-> <<>>]
Str(s) == [null |-> FALSE, s |-> s]

NoIntent ==
  [kind |-> "invalid", name |-> <<>>, amount |-> 0, delta |-> FALSE,
   member |-> <<>>]

DefaultConf ==
  [delete_counters |-> FALSE, delete_timers |-> FALSE,
   delete_gauges |-> FALSE, delete_sets |-> FALSE,
   counter_sum |-> FALSE, counter_gauge |-> FALSE,
   timer_lower |-> FALSE, timer_upper |-> FALSE, timer_sum |-> FALSE,
   timer_count |-> FALSE, timer_percentile |-> <<>>]

\* statsd after statsd_config stored c and statsd_init created the table and
\* started the listener.
SInit(c) ==
  /\ conf = c
  /\ metrics_tree = <<>>
  /\ net_buffer = NullStr
  /\ dispatched = <<>>
  /\ read_pre = <<>>
  /\ read_post = <<>>
  /\ line_log = [n |-> 0, text |-> <<>>, status |-> 0, before |-> <<>>,
                 after |-> <<>>, intent |-> NoIntent, prev_status |-> 0,
                 mem |-> "ok"]
  /\ net_intents = <<>>
  /\ ghost = <<>>
  /\ ghost_pre = <<>>
  /\ n_datagrams = 0
  /\ n_reads = 0

\* statsd configured by default and idle, in the specifications of the shipper.
SQuiet == SInit(DefaultConf)

\* No thread inside a callback, both mutexes free, no call made yet.
XQuiet ==
  /\ send_buffer_lock = "free"
  /\ wifx_pc = <<>>
  /\ wire = <<>>
  /\ last_call = [op |-> "none"]
  /\ metrics_lock = "free"
  /\ read_iter = [pc |-> "idle"]
  /\ net_pc = "poll"
  /\ network_thread_shutdown = FALSE
  /\ sigterm_pending = FALSE
  /\ shutdown_pc = "idle"

BInit ==
  /\ wifxudp_config_packet_size \in PacketSizes
  /\ wifxudp_config_ttl = 0
  /\ \E n \in 1..MaxServers : sending_sockets = wifxudp_config_set_server(n)
  /\ send_buffer = <<>>
  /\ send_buffer_ptr = 0
  /\ send_buffer_fill = 0
  /\ send_buffer_last_update = 0
  /\ now = 1
  /\ wifx_state = "running"
  /\ written = <<>>
  /\ flushed = <<>>
  /\ SQuiet
  /\ XQuiet

BWrite ==
  /\ \E status \in FormatResults :
       Len(written) < MaxWrites /\ write_influxdb_udp_write(status)
  /\ UNCHANGED <<svars, xvars>>

BFlush ==
  /\ \E timeout \in FlushTimeouts : write_influxdb_udp_flush(timeout)
  /\ UNCHANGED <<svars, xvars>>

BShutdown == write_influxdb_udp_shutdown /\ UNCHANGED <<svars, xvars>>

BTick == Tick /\ UNCHANGED <<svars, xvars>>

BNext == BWrite \/ BFlush \/ BShutdown \/ BTick

SpecBatcher == BInit /\ [][BNext]_vars

(***************************************************************************)
(* write_influxdb_udp_config: the directives of the <Plugin> block, one    *)
(* by one, before write_influxdb_udp_init.  cf_util_get_int hands the      *)
(* directive's number over as an int (tmp), or fails when the argument is  *)
(* not one number.                                                         *)
(***************************************************************************)
INT_MAX == 2147483647

\* What cf_util_get_int gives for the TimeToLive and MaxPacketSize lines of
\* a configuration file: [status, tmp].
ConfigInts ==
  { [status |-> 0, tmp |-> n] :
      n \in {0 - INT_MAX - 1, -1, 0, 1, 64, 255, 256, 1023, 1024, 1452,
             65535, 65536, INT_MAX} }
    \cup { [status |-> -1, tmp |-> 0] }

TtlInRange(tmp) == (tmp > 0) /\ (tmp <= 255)

PacketSizeInRange_NoUpper(tmp) == tmp >= 1024

PacketSizeInRange(tmp) == (tmp >= 1024) /\ (tmp <= 65535)

\* Returns [status, ttl]: the status and wifxudp_config_ttl afterwards.
wifxudp_config_set_ttl(ttl, got) ==
  IF got.status # 0 THEN [status |-> -1, ttl |-> ttl]
  ELSE IF TtlInRange(got.tmp) THEN [status |-> 0, ttl |-> got.tmp]
  ELSE [status |-> -1, ttl |-> ttl]

\* Returns [status, size].
wifxudp_config_set_buffer_size(size, got) ==
  IF got.status # 0 THEN [status |-> -1, size |-> size]
  ELSE IF PacketSizeInRange(got.tmp) THEN [status |-> 0, size |-> got.tmp]
  ELSE [status |-> -1, size |-> size]

\* The plugin as loaded: the static initialisers.
ConfigInit ==
  /\ wifxudp_config_packet_size = NET_DEFAULT_PACKET_SIZE
  /\ wifxudp_config_ttl = 0
  /\ sending_sockets = <<>>
  /\ send_buffer = <<>>
  /\ send_buffer_ptr = 0
  /\ send_buffer_fill = 0
  /\ send_buffer_last_update = 0
  /\ now = 1
  /\ wifx_state = "config"
  /\ written = <<>>
  /\ flushed = <<>>
  /\ SQuiet
  /\ XQuiet

ConfigUnchanged ==
  UNCHANGED <<svars, send_buffer_lock, wifx_pc, wire, metrics_lock,
              read_iter, net_pc, network_thread_shutdown, sigterm_pending,
              shutdown_pc, send_buffer, send_buffer_ptr, send_buffer_fill,
              send_buffer_last_update, now, written, flushed>>

\* What the directive found stored.
ConfigStored ==
  [ttl |-> wifxudp_config_ttl, size |-> wifxudp_config_packet_size]

ConfigTimeToLive ==
  /\ wifx_state = "config"
  /\ \E got \in ConfigInts :
       LET r == wifxudp_config_set_ttl(wifxudp_config_ttl, got) IN
       /\ wifxudp_config_ttl' = r.ttl
       /\ last_call' = [op |-> "TimeToLive", got |-> got,
                        status |-> r.status, pre |-> ConfigStored]
  /\ UNCHANGED <<wifxudp_config_packet_size, sending_sockets, wifx_state>>
  /\ ConfigUnchanged

ConfigMaxPacketSize ==
  /\ wifx_state = "config"
  /\ \E got \in ConfigInts :
       LET r == wifxudp_config_set_buffer_size(wifxudp_config_packet_size,
                                               got) IN
       /\ wifxudp_config_packet_size' = r.size
       /\ last_call' = [op |-> "MaxPacketSize", got |-> got,
                        status |-> r.status, pre |-> ConfigStored]
  /\ UNCHANGED <<wifxudp_config_ttl, sending_sockets, wifx_state>>
  /\ ConfigUnchanged

ConfigServer ==
  /\ wifx_state = "config"
  /\ Len(sending_sockets) < MaxServers
  /\ sending_sockets' =
       sockent_add(sending_sockets, sockent_create(Len(sending_sockets) + 1))
  /\ last_call' = [op |-> "Server"]
  /\ UNCHANGED <<wifxudp_config_ttl, wifxudp_config_packet_size, wifx_state>>
  /\ ConfigUnchanged

\* write_influxdb_udp_init: the buffer is allocated with the size stored.
ConfigDone ==
  /\ wifx_state = "config"
  /\ wifx_state' = "running"
  /\ last_call' = [op |-> "init"]
  /\ UNCHANGED <<wifxudp_config_ttl, wifxudp_config_packet_size,
                 sending_sockets>>
  /\ ConfigUnchanged

ConfigNext ==
  ConfigTimeToLive \/ ConfigMaxPacketSize \/ ConfigServer \/ ConfigDone

SpecConfig == ConfigInit /\ [][ConfigNext]_vars

(***************************************************************************)
(* statsd.c.  Text is a sequence of one-character strings.  A double is    *)
(* kept in hundredths (3.25 is 325); the inputs below are multiples of     *)
(* 0.25 divided by 1, 0.5 or 0.25, which doubles hold exactly, so the      *)
(* arithmetic on them is exact here as it is in the program.               *)
(***************************************************************************)
Scale == 100

DATA_MAX_NAME_LEN == 128

Min(a, b) == IF a <= b THEN a ELSE b

\* strchr / strrchr: the index of the first / last c in s, 0 for NULL.
strchr(s, c) ==
  IF \E i \in DOMAIN s : s[i] = c
    THEN CHOOSE i \in DOMAIN s : s[i] = c /\ \A j \in 1..(i - 1) : s[j] # c
    ELSE 0

strrchr(s, c) ==
  IF \E i \in DOMAIN s : s[i] = c
    THEN CHOOSE i \in DOMAIN s : s[i] = c /\ \A j \in (i + 1)..Len(s) : s[j] # c
    ELSE 0

DigitVal ==
  "0" :> 0 @@ "1" :> 1 @@ "2" :> 2 @@ "3" :> 3 @@ "4" :> 4 @@
  "5" :> 5 @@ "6" :> 6 @@ "7" :> 7 @@ "8" :> 8 @@ "9" :> 9

IsDigit(c) == c \in DOMAIN DigitVal

RECURSIVE DigitRun(_, _)
DigitRun(s, i) ==
  IF i <= Len(s) /\ IsDigit(s[i]) THEN 1 + DigitRun(s, i + 1) ELSE 0

RECURSIVE DigitsValue(_)
DigitsValue(ds) ==
  IF ds = <<>> THEN 0
  ELSE DigitsValue(SubSeq(ds, 1, Len(ds) - 1)) * 10 + DigitVal[ds[Len(ds)]]

\* strtod() on the decimal forms: [sign] digits [. digits] or [sign] . digits.
\* consumed is endptr - str; val is in hundredths (digits after the second
\* decimal are dropped; the inputs have none).  The text here has no blanks,
\* exponents or hexadecimal forms.
\* What strtod reads as an infinity or a NaN (in lower case).
NonFiniteTexts ==
  { <<"i", "n", "f">>, <<"i", "n", "f", "i", "n", "i", "t", "y">>,
    <<"n", "a", "n">> }

\* The doubles that are not numbers of hundredths: +infinity, -infinity (its
\* negation) and NaN.  They are kept as two integers far above every finite
\* value of the model and take part in arithmetic only through the
\* operators below.
INFINITY == 1000000000
NAN == 1000000001

isfinite(x) == x \notin {INFINITY, 0 - INFINITY, NAN}

\* IEEE-754 a + b and a - b.
DAdd(a, b) ==
  IF a = NAN \/ b = NAN THEN NAN
  ELSE IF isfinite(a) /\ isfinite(b) THEN a + b
  ELSE IF isfinite(b) THEN a
  ELSE IF isfinite(a) THEN b
  ELSE IF a = b THEN a
  ELSE NAN

DNeg(a) == IF a = NAN THEN NAN ELSE 0 - a

DSub(a, b) == DAdd(a, DNeg(b))

\* What strtod gives for a text of NonFiniteTexts after the sign.
NonFiniteValue(text, negative) ==
  IF text = <<"n", "a", "n">> THEN NAN
  ELSE IF negative THEN 0 - INFINITY
  ELSE INFINITY

Strtod(s) ==
  LET number(sg, ni, dot, nf) ==
        LET ipart == DigitsValue(SubSeq(s, sg + 1, sg + ni))
            fpart == CASE nf = 0 -> 0
                       [] nf = 1 -> DigitVal[s[sg + ni + 2]] * 10
                       [] OTHER ->
                            DigitsValue(SubSeq(s, sg + ni + 2, sg + ni + 3))
        IN
        IF ni + nf = 0 THEN [consumed |-> 0, val |-> 0, finite |-> TRUE]
        ELSE [consumed |-> sg + ni + (IF dot THEN 1 + nf ELSE 0),
              val |-> IF sg = 1 /\ s[1] = "-"
                        THEN 0 - (ipart * Scale + fpart)
                        ELSE ipart * Scale + fpart,
              finite |-> TRUE]
      fraction(sg, ni, dot) ==
        number(sg, ni, dot, IF dot THEN DigitRun(s, sg + ni + 2) ELSE 0)
      point(sg, ni) ==
        fraction(sg, ni, sg + ni + 1 <= Len(s) /\ s[sg + ni + 1] = ".")
      digits(sg) == point(sg, DigitRun(s, sg + 1))
      signed(sg) ==
        IF SubSeq(s, sg + 1, Len(s)) \in NonFiniteTexts
          THEN [consumed |-> Len(s),
                val |-> NonFiniteValue(SubSeq(s, sg + 1, Len(s)),
                                       sg = 1 /\ s[1] = "-"),
                finite |-> FALSE]
          ELSE digits(sg)
  IN signed(IF Len(s) >= 1 /\ s[1] \in {"+", "-"} THEN 1 ELSE 0)

\* Returns [status, val].
statsd_parse_value(str) ==
  LET checked(r) ==
        IF r.consumed = 0 \/ r.consumed # Len(str)
          THEN [status |-> -1, val |-> r.val, finite |-> r.finite]
          ELSE [status |-> 0, val |-> r.val, finite |-> r.finite]
  IN checked(Strtod(str))

\* a / b on doubles held in hundredths, for a finite b > 0.
FDiv(a, b) == IF isfinite(a) THEN (a * Scale) \div b ELSE a

\* nearbyint() in the default rounding mode: to nearest, ties to even; an
\* infinity or a NaN is returned as it is.
nearbyint(x) ==
  LET q == x \div Scale
      r == x % Scale
  IN
  IF ~isfinite(x) THEN x
  ELSE
  Scale * (IF 2 * r < Scale THEN q
           ELSE IF 2 * r > Scale THEN q + 1
           ELSE IF q % 2 = 0 THEN q ELSE q + 1)

(***************************************************************************)
(* The metric table.  A cell is a statsd_metric_t; latency and set are     *)
(* [alloc, ...] with alloc FALSE for the NULL pointer.                     *)
(***************************************************************************)
TypeTag ==
  "STATSD_COUNTER" :> "c" @@ "STATSD_TIMER" :> "t" @@
  "STATSD_GAUGE" :> "g" @@ "STATSD_SET" :> "s"

\* key[0] = tag; key[1] = ':'; sstrncpy(&key[2], name, sizeof(key) - 2).
MetricKey(name, type) ==
  <<TypeTag[type], ":">>
    \o SubSeq(name, 1, Min(Len(name), DATA_MAX_NAME_LEN - 1))

\* calloc(1, sizeof(*metric)) with the type set.
NewMetric(type) ==
  [type |-> type, value |-> 0, counter |-> 0,
   latency |-> [alloc |-> FALSE, samples |-> <<>>],
   set |-> [alloc |-> FALSE, members |-> {}],
   updates_num |-> 0]

\* The memory of one update: every allocation it makes succeeds ("ok"), or
\* the one named fails if the update gets to it.  The first three are the
\* strdup, calloc and c_avl_insert of statsd_metric_lookup_unsafe, then
\* latency_counter_create of a timer, and c_avl_create, strdup and
\* c_avl_insert of a set.
MemEnv ==
  {"ok", "strdup_key", "calloc_metric", "c_avl_insert",
   "latency_counter_create", "c_avl_create", "strdup_set_key",
   "c_avl_insert_set_key"}

LookupFailures == {"strdup_key", "calloc_metric", "c_avl_insert"}

\* Returns [null, tree]: null when the function returns NULL, and the table
\* with the cell of (name, type) in it otherwise.
statsd_metric_lookup_unsafe(tree, name, type, mem) ==
  LET key == MetricKey(name, type) IN
  IF key \in DOMAIN tree THEN [null |-> FALSE, tree |-> tree]
  ELSE IF mem \in LookupFailures THEN [null |-> TRUE, tree |-> tree]
  ELSE [null |-> FALSE, tree |-> tree @@ (key :> NewMetric(type))]

\* Returns [status, tree].
statsd_metric_set_Accumulate(tree, name, value, type, mem) ==
  LET key == MetricKey(name, type)
      metric == statsd_metric_lookup_unsafe(tree, name, type, mem)
  IN
  IF metric.null THEN [status |-> -1, tree |-> tree]
  ELSE [status |-> 0,
        tree |-> [metric.tree EXCEPT ![key].value = @ + value,
                                     ![key].updates_num = @ + 1]]

statsd_metric_set(tree, name, value, type, mem) ==
  LET key == MetricKey(name, type)
      metric == statsd_metric_lookup_unsafe(tree, name, type, mem)
  IN
  IF metric.null THEN [status |-> -1, tree |-> tree]
  ELSE [status |-> 0,
        tree |-> [metric.tree EXCEPT ![key].value = value,
                                     ![key].updates_num = @ + 1]]

statsd_metric_add(tree, name, delta, type, mem) ==
  LET key == MetricKey(name, type)
      metric == statsd_metric_lookup_unsafe(tree, name, type, mem)
  IN
  IF metric.null THEN [status |-> -1, tree |-> tree]
  ELSE [status |-> 0,
        tree |-> [metric.tree EXCEPT ![key].value = DAdd(@, delta),
                                     ![key].updates_num = @ + 1]]

\* The "@rate" field of counters and timers: [status, val].
ParseScale_NoUpper(extra) ==
  IF extra.null THEN [status |-> 0, val |-> Scale]
  ELSE
    LET ranged(r) ==
          IF r.status # 0 THEN [status |-> r.status, val |-> 0]
          ELSE IF (~r.finite) \/ r.val <= 0 THEN [status |-> -1, val |-> 0]
          ELSE [status |-> 0, val |-> r.val]
    IN ranged(statsd_parse_value(Tail(extra.s)))

ParseScale(extra) ==
  IF extra.null THEN [status |-> 0, val |-> Scale]
  ELSE
    LET ranged(r) ==
          IF r.status # 0 THEN [status |-> r.status, val |-> 0]
          ELSE IF (~r.finite) \/ r.val <= 0 \/ r.val > Scale
            THEN [status |-> -1, val |-> 0]
          ELSE [status |-> 0, val |-> r.val]
    IN ranged(statsd_parse_value(Tail(extra.s)))

statsd_handle_counter(tree, name, value_str, extra, mem) ==
  IF (~extra.null) /\ (extra.s = <<>> \/ Head(extra.s) # "@")
    THEN [status |-> -1, tree |-> tree]
  ELSE
    LET add(scale, value) ==
          IF scale.status # 0 THEN [status |-> scale.status, tree |-> tree]
          ELSE IF value.status # 0
            THEN [status |-> value.status, tree |-> tree]
          ELSE statsd_metric_add(tree, name, FDiv(value.val, scale.val),
                                 "STATSD_COUNTER", mem)
    IN add(ParseScale(extra), statsd_parse_value(value_str))

statsd_handle_gauge(tree, name, value_str, mem) ==
  LET apply(value) ==
        IF value.status # 0 THEN [status |-> value.status, tree |-> tree]
        ELSE IF Head(value_str) = "+" \/ Head(value_str) = "-"
          THEN statsd_metric_add(tree, name, value.val, "STATSD_GAUGE", mem)
          ELSE statsd_metric_set(tree, name, value.val, "STATSD_GAUGE", mem)
  IN apply(statsd_parse_value(value_str))

\* The duration handed to the histogram for value_ms / scale milliseconds.
MS_TO_CDTIME_T(ms) == ms

\* latency_counter_add(): one more sample.
latency_counter_add(lc, value) ==
  [lc EXCEPT !.samples = Append(@, value)]

statsd_handle_timer(tree, name, value_str, extra, mem) ==
  IF (~extra.null) /\ (extra.s = <<>> \/ Head(extra.s) # "@")
    THEN [status |-> -1, tree |-> tree]
  ELSE
    LET record(scale, value_ms) ==
          IF scale.status # 0 THEN [status |-> scale.status, tree |-> tree]
          ELSE IF value_ms.status # 0
            THEN [status |-> value_ms.status, tree |-> tree]
          ELSE
            LET value == MS_TO_CDTIME_T(FDiv(value_ms.val, scale.val))
                key == MetricKey(name, "STATSD_TIMER")
                metric ==
                  statsd_metric_lookup_unsafe(tree, name, "STATSD_TIMER", mem)
                \* latency_counter_create() when metric->latency is NULL
                created(t1) == [t1 EXCEPT ![key].latency.alloc = TRUE]
                added(t2) ==
                  [status |-> 0,
                   tree |-> [t2 EXCEPT
                               ![key].latency = latency_counter_add(@, value),
                               ![key].updates_num = @ + 1]]
            IN
            IF metric.null THEN [status |-> -1, tree |-> tree]
            ELSE IF (~metric.tree[key].latency.alloc)
                      /\ mem = "latency_counter_create"
              THEN [status |-> -1, tree |-> metric.tree]
            ELSE added(created(metric.tree))
    IN record(ParseScale(extra), statsd_parse_value(value_str))

statsd_handle_set(tree, name, set_key_orig, mem) ==
  LET key == MetricKey(name, "STATSD_SET")
      metric == statsd_metric_lookup_unsafe(tree, name, "STATSD_SET", mem)
      \* c_avl_create() when metric->set is NULL
      created(t1) == [t1 EXCEPT ![key].set.alloc = TRUE]
      \* strdup(), then c_avl_insert(): a key already present is left as it
      \* is, a new one needs a node
      inserted(t2) ==
        IF mem = "strdup_set_key" THEN [status |-> -1, tree |-> t2]
        ELSE IF mem = "c_avl_insert_set_key"
                  /\ set_key_orig \notin t2[key].set.members
          THEN [status |-> -1, tree |-> t2]
        ELSE [status |-> 0,
              tree |-> [t2 EXCEPT ![key].set.members = @ \cup {set_key_orig},
                                  ![key].updates_num = @ + 1]]
  IN
  IF metric.null THEN [status |-> -1, tree |-> tree]
  ELSE IF (~metric.tree[key].set.alloc) /\ mem = "c_avl_create"
    THEN [status |-> -1, tree |-> metric.tree]
  ELSE inserted(created(metric.tree))

\* One line, without its newline.  Returns [status, tree].
statsd_parse_line(tree, buffer, mem) ==
  LET handle(name, value, type, extra) ==
        IF type = <<"c">>
          THEN statsd_handle_counter(tree, name, value, extra, mem)
        ELSE IF type = <<"m", "s">>
          THEN statsd_handle_timer(tree, name, value, extra, mem)
        ELSE IF ~extra.null THEN [status |-> -1, tree |-> tree]
        ELSE IF type = <<"g">>
          THEN statsd_handle_gauge(tree, name, value, mem)
        ELSE IF type = <<"s">> THEN statsd_handle_set(tree, name, value, mem)
        ELSE [status |-> -1, tree |-> tree]
      \* q: the last ':' of the name part; e: the first '|' of the type part
      fields(name0, type0, q, e) ==
        IF q = 0 THEN [status |-> -1, tree |-> tree]
        ELSE handle(SubSeq(name0, 1, q - 1),
                    SubSeq(name0, q + 1, Len(name0)),
                    IF e = 0 THEN type0 ELSE SubSeq(type0, 1, e - 1),
                    IF e = 0 THEN NullStr
                    ELSE Str(SubSeq(type0, e + 1, Len(type0))))
      parts(name0, type0) ==
        fields(name0, type0, strrchr(name0, ":"), strchr(type0, "|"))
      \* p: the first '|' of the line
      split(p) ==
        IF p = 0 THEN [status |-> -1, tree |-> tree]
        ELSE parts(SubSeq(buffer, 1, p - 1), SubSeq(buffer, p + 1, Len(buffer)))
  IN split(strchr(buffer, "|"))

(***************************************************************************)
(* statsd_read: the periodic flush of the metric table.                    *)
(***************************************************************************)
conf_delete_counters == conf.delete_counters
conf_delete_timers == conf.delete_timers
conf_delete_gauges == conf.delete_gauges
conf_delete_sets == conf.delete_sets
conf_counter_sum == conf.counter_sum
conf_counter_gauge == conf.counter_gauge
conf_timer_lower == conf.timer_lower
conf_timer_upper == conf.timer_upper
conf_timer_sum == conf.timer_sum
conf_timer_count == conf.timer_count
conf_timer_percentile == conf.timer_percentile

\* A value_t as dispatched: a gauge (hundredths, or NaN) or a derive.
GaugeVal(x) == [t |-> "gauge", nan |-> FALSE, v |-> x]
NaNVal == [t |-> "gauge", nan |-> TRUE, v |-> 0]
DeriveVal(n) == [t |-> "derive", nan |-> FALSE, v |-> n]

\* One plugin_dispatch_values(&vl): type, type_instance = name + suffix
\* (+ the percentile for "-percentile-"), values[0], time (0: not set).
Dispatch(type, name, suffix, p, value, time) ==
  [type |-> type, name |-> name, suffix |-> suffix, p |-> p,
   value |-> value, time |-> time]

\* utils/latency: the histogram's summaries.
RECURSIVE SeqSum(_)
SeqSum(q) == IF q = <<>> THEN 0 ELSE Head(q) + SeqSum(Tail(q))

SeqRange(q) == { q[i] : i \in DOMAIN q }

latency_counter_get_num(lc) == Len(lc.samples)
latency_counter_get_sum(lc) == SeqSum(lc.samples)
latency_counter_get_average(lc) ==
  IF lc.samples = <<>> THEN 0 ELSE SeqSum(lc.samples) \div Len(lc.samples)
latency_counter_get_min(lc) ==
  IF lc.samples = <<>> THEN 0
  ELSE CHOOSE x \in SeqRange(lc.samples) : \A y \in SeqRange(lc.samples) : x <= y
latency_counter_get_max(lc) ==
  IF lc.samples = <<>> THEN 0
  ELSE CHOOSE x \in SeqRange(lc.samples) : \A y \in SeqRange(lc.samples) : x >= y
latency_counter_get_percentile(lc, p) ==
  IF lc.samples = <<>> THEN 0
  ELSE
    LET atmost(x) == Cardinality({ i \in DOMAIN lc.samples : lc.samples[i] <= x })
        enough == { x \in SeqRange(lc.samples) :
                      atmost(x) * 100 >= p * Len(lc.samples) }
    IN CHOOSE x \in enough : \A y \in enough : x <= y
latency_counter_reset(lc) == [lc EXCEPT !.samples = <<>>]

RECURSIVE PercentileDispatches(_, _, _, _, _)
PercentileDispatches(name, lc, have_events, ps, time) ==
  IF ps = <<>> THEN <<>>
  ELSE <<Dispatch("latency", name, "-percentile-", Head(ps),
                  IF have_events
                    THEN GaugeVal(latency_counter_get_percentile(lc, Head(ps)))
                    ELSE NaNVal,
                  time)>>
       \o PercentileDispatches(name, lc, have_events, Tail(ps), time)

\* The counter's residual after the flush: `metric->value -= delta'.
CounterResidual_Reset(value, delta) == 0

CounterResidual(value, delta) == DSub(value, delta)

\* -count of a timer: latency_counter_get_num().
TimerCountValue_Distinct(lc) ==
  GaugeVal(Cardinality(SeqRange(lc.samples)) * Scale)

TimerCountValue(lc) == GaugeVal(latency_counter_get_num(lc) * Scale)

\* The value dispatched for a set: 0.0 or c_avl_size(metric->set).
SetValue(set) ==
  IF ~set.alloc THEN GaugeVal(0) ELSE GaugeVal(Cardinality(set.members) * Scale)

\* metric->value after the CounterGauge block, which dispatches it, zeroes
\* it and then restores it from the dispatched vl.values[0].gauge.
CounterGaugeRestore_Zero(value) == IF conf_counter_gauge THEN 0 ELSE value

CounterGaugeRestore(value) == value

\* `(derive_t)delta' for a delta that is an infinity or a NaN is undefined in
\* C.  The builds differ: the x86-64 conversion gives the least derive_t for
\* all three, the AArch64 one saturates and gives 0 for a NaN.  Which one a
\* run has is fixed when it starts and is read from conf.derive_cast, a field
\* that only the specifications with non-finite values carry.  derive_t is
\* 64 bits wide; its least and greatest value are held as the least and
\* greatest 32-bit integer, and `metric->counter +=' wraps there.
DeriveCasts == {"indefinite", "saturate"}

DERIVE_MAX == INT_MAX
DERIVE_MIN == 0 - INT_MAX - 1

CastToDerive(x, cast) ==
  IF cast = "indefinite" THEN DERIVE_MIN
  ELSE IF x = NAN THEN 0
  ELSE IF x = INFINITY THEN DERIVE_MAX
  ELSE DERIVE_MIN

WrapAdd(counter, d) ==
  IF d > 0 /\ counter > DERIVE_MAX - d
    THEN (counter - DERIVE_MAX) + (d - DERIVE_MAX) - 2
  ELSE IF d < 0 /\ counter < DERIVE_MIN - d
    THEN (counter - DERIVE_MIN) + (d - DERIVE_MIN)
  ELSE counter + d

\* `metric->counter += (derive_t)delta'.
DeriveAdd(counter, delta) ==
  IF isfinite(delta) THEN counter + (delta \div Scale)
  ELSE WrapAdd(counter, CastToDerive(delta, conf.derive_cast))

\* Returns [metric, out]: the cell afterwards and the dispatches, in order.
statsd_metric_submit_unsafe(name, metric, time) ==
  CASE metric.type = "STATSD_GAUGE" ->
         [metric |-> metric,
          out |-> <<Dispatch("gauge", name, "", 0, GaugeVal(metric.value), 0)>>]
    [] metric.type = "STATSD_TIMER" ->
         LET have_events == metric.updates_num > 0
             lc == metric.latency
             stat(x) == IF have_events THEN GaugeVal(x) ELSE NaNVal
         IN
         [metric |-> [metric EXCEPT !.latency = latency_counter_reset(@)],
          out |->
            <<Dispatch("latency", name, "-average", 0,
                       stat(latency_counter_get_average(lc)), time)>>
            \o (IF conf_timer_lower
                  THEN <<Dispatch("latency", name, "-lower", 0,
                                  stat(latency_counter_get_min(lc)), time)>>
                  ELSE <<>>)
            \o (IF conf_timer_upper
                  THEN <<Dispatch("latency", name, "-upper", 0,
                                  stat(latency_counter_get_max(lc)), time)>>
                  ELSE <<>>)
            \o (IF conf_timer_sum
                  THEN <<Dispatch("latency", name, "-sum", 0,
                                  stat(latency_counter_get_sum(lc)), time)>>
                  ELSE <<>>)
            \o PercentileDispatches(name, lc, have_events,
                                    conf_timer_percentile, time)
            \o (IF conf_timer_count
                  THEN <<Dispatch("gauge", name, "-count", 0,
                                  TimerCountValue(lc), time)>>
                  ELSE <<>>)]
    [] metric.type = "STATSD_SET" ->
         [metric |-> metric,
          out |-> <<Dispatch("objects", name, "", 0, SetValue(metric.set), 0)>>]
    [] OTHER -> \* STATSD_COUNTER
         LET delta == nearbyint(metric.value)
             restored == CounterGaugeRestore(metric.value)
             counter == DeriveAdd(metric.counter, delta)
         IN
         [metric |-> [metric EXCEPT !.value = CounterResidual(restored, delta),
                                    !.counter = counter],
          out |->
            (IF conf_counter_sum
               THEN <<Dispatch("count", name, "", 0, GaugeVal(delta), 0)>>
               ELSE <<>>)
            \o (IF conf_counter_gauge
                  THEN <<Dispatch("gauge", name, "", 0,
                                  GaugeVal(metric.value), 0)>>
                  ELSE <<>>)
            \o <<Dispatch("derive", name, "", 0, DeriveVal(counter), 0)>>]

\* statsd_metric_clear_set_unsafe: c_avl_pick until the set is empty.
statsd_metric_clear_set_unsafe_Keep(metric) == metric

statsd_metric_clear_set_unsafe(metric) ==
  IF metric.type # "STATSD_SET" \/ ~metric.set.alloc THEN metric
  ELSE [metric EXCEPT !.set.members = {}]

\* strcmp order of the keys, which is the order c_avl_iterator_next follows.
CharOrd ==
  "\n" :> 10 @@ "+" :> 43 @@ "-" :> 45 @@ "." :> 46 @@
  "0" :> 48 @@ "1" :> 49 @@ "2" :> 50 @@ "3" :> 51 @@ "4" :> 52 @@
  "5" :> 53 @@ "6" :> 54 @@ "7" :> 55 @@ "8" :> 56 @@ "9" :> 57 @@
  ":" :> 58 @@ "@" :> 64 @@ "a" :> 97 @@ "b" :> 98 @@ "c" :> 99 @@
  "g" :> 103 @@ "m" :> 109 @@ "s" :> 115 @@ "t" :> 116 @@ "x" :> 120 @@
  "|" :> 124

RECURSIVE StrLess(_, _)
StrLess(a, b) ==
  IF b = <<>> THEN FALSE
  ELSE IF a = <<>> THEN TRUE
  ELSE IF Head(a) = Head(b) THEN StrLess(Tail(a), Tail(b))
  ELSE CharOrd[Head(a)] < CharOrd[Head(b)]

RECURSIVE SortedKeys(_)
SortedKeys(S) ==
  IF S = {} THEN <<>>
  ELSE LET m == CHOOSE k \in S : \A o \in S \ {k} : StrLess(k, o)
       IN <<m>> \o SortedKeys(S \ {m})

IdleDelete_IgnoreUpdates(metric) ==
  \/ (conf_delete_counters /\ metric.type = "STATSD_COUNTER")
  \/ (conf_delete_timers /\ metric.type = "STATSD_TIMER")
  \/ (conf_delete_gauges /\ metric.type = "STATSD_GAUGE")
  \/ (conf_delete_sets /\ metric.type = "STATSD_SET")

\* The test of statsd_read that puts a cell on the to_be_deleted list.
IdleDelete(metric) ==
  /\ metric.updates_num = 0
  /\ \/ (conf_delete_counters /\ metric.type = "STATSD_COUNTER")
     \/ (conf_delete_timers /\ metric.type = "STATSD_TIMER")
     \/ (conf_delete_gauges /\ metric.type = "STATSD_GAUGE")
     \/ (conf_delete_sets /\ metric.type = "STATSD_SET")

ResetMetric_SetsOnly(metric) == statsd_metric_clear_set_unsafe(metric)

\* "Reset the metric": updates_num = 0, and the members of a set dropped.
ResetMetric(metric) ==
  statsd_metric_clear_set_unsafe([metric EXCEPT !.updates_num = 0])

\* The iteration of statsd_read over keys; acc = [tree, out, to_be_deleted].
RECURSIVE ReadLoop(_, _, _)
ReadLoop(keys, acc, time) ==
  IF keys = <<>> THEN acc
  ELSE
    LET name == Head(keys)
        metric == acc.tree[name]
    IN
    IF IdleDelete(metric)
      THEN ReadLoop(Tail(keys),
                    [acc EXCEPT !.to_be_deleted = Append(@, name)], time)
      ELSE
        LET r == statsd_metric_submit_unsafe(SubSeq(name, 3, Len(name)),
                                             metric, time)
            reset == ResetMetric(r.metric)
            \* history: each dispatch is logged with the key of its cell
            logged == [i \in DOMAIN r.out |-> [key |-> name, vl |-> r.out[i]]]
        IN ReadLoop(Tail(keys),
                    [acc EXCEPT !.tree[name] = reset, !.out = @ \o logged],
                    time)

RemoveDeleted_Keep(tree, to_be_deleted) == tree

\* The loop after the iteration: c_avl_remove of every name on the list.
RemoveDeleted(tree, to_be_deleted) ==
  [k \in (DOMAIN tree) \ SeqRange(to_be_deleted) |-> tree[k]]

\* Returns [tree, out]: the table after the deletions, and the dispatches.
statsd_read_result(tree, time) ==
  LET looped == ReadLoop(SortedKeys(DOMAIN tree),
                         [tree |-> tree, out |-> <<>>, to_be_deleted |-> <<>>],
                         time)
  IN [tree |-> RemoveDeleted(looped.tree, looped.to_be_deleted),
      out |-> looped.out]

(***************************************************************************)
(* The listener's input.  A line is [text, intent]: the bytes on the wire  *)
(* and what the sender means by them (the kind, the name, and the amount   *)
(* in hundredths that the line stands for: v / rate for counters and       *)
(* timers, v for gauges).  The intent never reaches the program; it feeds  *)
(* the ghost variables the claims are stated with.                         *)
(***************************************************************************)
KindType ==
  "c" :> "STATSD_COUNTER" @@ "ms" :> "STATSD_TIMER" @@
  "g" :> "STATSD_GAUGE" @@ "s" :> "STATSD_SET"

RateTxt(rtxt) == IF rtxt = <<>> THEN <<>> ELSE <<"|", "@">> \o rtxt

CounterLine(name, vtxt, rtxt, amount) ==
  [text |-> name \o <<":">> \o vtxt \o <<"|", "c">> \o RateTxt(rtxt),
   intent |-> [kind |-> "c", name |-> name, amount |-> amount,
               delta |-> FALSE, member |-> <<>>]]

TimerLine(name, vtxt, rtxt, amount) ==
  [text |-> name \o <<":">> \o vtxt \o <<"|", "m", "s">> \o RateTxt(rtxt),
   intent |-> [kind |-> "ms", name |-> name, amount |-> amount,
               delta |-> FALSE, member |-> <<>>]]

GaugeLine(name, vtxt, delta, amount) ==
  [text |-> name \o <<":">> \o vtxt \o <<"|", "g">>,
   intent |-> [kind |-> "g", name |-> name, amount |-> amount,
               delta |-> delta, member |-> <<>>]]

SetLine(name, member) ==
  [text |-> name \o <<":">> \o member \o <<"|", "s">>,
   intent |-> [kind |-> "s", name |-> name, amount |-> 0,
               delta |-> FALSE, member |-> member]]

BadLine(text) == [text |-> text, intent |-> NoIntent]

EmptyLine ==
  [text |-> <<>>,
   intent |-> [kind |-> "empty", name |-> <<>>, amount |-> 0,
               delta |-> FALSE, member |-> <<>>]]

RECURSIVE JoinLines(_)
JoinLines(lines) ==
  IF lines = <<>> THEN <<>>
  ELSE IF Len(lines) = 1 THEN lines[1].text
  ELSE lines[1].text \o <<"\n">> \o JoinLines(Tail(lines))

RECURSIVE Intents(_)
Intents(lines) ==
  IF lines = <<>> THEN <<>>
  ELSE (IF Head(lines).intent.kind = "empty" THEN <<>>
        ELSE <<Head(lines).intent>>) \o Intents(Tail(lines))

\* A datagram of these lines, newline-separated, with or without a last newline.
Datagram(lines, trailing) ==
  [text |-> JoinLines(lines) \o (IF trailing THEN <<"\n">> ELSE <<>>),
   intents |-> Intents(lines)]

(***************************************************************************)
(* Ghost state: per cell, what the accepted lines for it meant.            *)
(*   sum      the amounts of the counter lines since the cell was created  *)
(*   rounded  the residuals before each emission, each rounded to nearest  *)
(*   base, deltas   the last absolute gauge update and the deltas since    *)
(*   members  the set members since the last read that emitted the cell    *)
(*   lines    the accepted lines since the last read                       *)
(*   emitted  the reads that emitted the cell; last_total and prev_total   *)
(*            are the derive values of the last two of them                *)
(*   owners   the <<kind, name>> pairs of the accepted lines               *)
(***************************************************************************)
NewGhost ==
  [sum |-> 0, rounded |-> 0, base |-> 0, deltas |-> 0, members |-> {},
   lines |-> 0, emitted |-> 0, last_total |-> 0, prev_total |-> 0,
   owners |-> {}]

\* The integer nearest to x hundredths, the even one when two are as near.
NearestEven(x) ==
  LET d(n) == IF x >= n * Scale THEN x - n * Scale ELSE n * Scale - x
  IN CHOOSE n \in ((x \div Scale) - 1)..((x \div Scale) + 1) :
       /\ 2 * d(n) <= Scale
       /\ (2 * d(n) = Scale => n % 2 = 0)

GhostApply(g, intent) ==
  IF intent.kind \notin DOMAIN KindType THEN g
  ELSE
    LET key == MetricKey(intent.name, KindType[intent.kind])
        cur == IF key \in DOMAIN g THEN g[key] ELSE NewGhost
        upd ==
          CASE intent.kind = "c" ->
                 [cur EXCEPT !.sum = @ + intent.amount, !.lines = @ + 1]
            [] intent.kind = "g" /\ intent.delta ->
                 [cur EXCEPT !.deltas = @ + intent.amount, !.lines = @ + 1]
            [] intent.kind = "g" /\ ~intent.delta ->
                 [cur EXCEPT !.base = intent.amount, !.deltas = 0,
                             !.lines = @ + 1]
            [] intent.kind = "s" ->
                 [cur EXCEPT !.members = @ \cup {intent.member},
                             !.lines = @ + 1]
            [] OTHER -> [cur EXCEPT !.lines = @ + 1]
        owned(c) ==
          [c EXCEPT !.owners = @ \cup {<<intent.kind, intent.name>>}]
    IN [k \in DOMAIN g \cup {key} |-> IF k = key THEN owned(upd) ELSE g[k]]

\* The dispatches of `out' made for the cell with this key.
DispatchesOf(out, key) == { i \in DOMAIN out : out[i].key = key }

\* After a read: the cells that are gone are forgotten, the others start a
\* new interval; a cell that was emitted starts a new member set, and a
\* counter records the derive value emitted and the rounding it came from.
GhostAfterRead(g, before, after, out) ==
  [k \in DOMAIN g \cap DOMAIN after |->
     IF DispatchesOf(out, k) = {} THEN [g[k] EXCEPT !.lines = 0]
     ELSE
       LET derives == { i \in DispatchesOf(out, k) : out[i].vl.type = "derive" }
       IN
       IF derives = {}
         THEN [g[k] EXCEPT !.lines = 0, !.members = {}, !.emitted = @ + 1]
         ELSE [g[k] EXCEPT
                 !.lines = 0, !.members = {}, !.emitted = @ + 1,
                 !.prev_total = g[k].last_total,
                 !.last_total = out[CHOOSE i \in derives : TRUE].vl.value.v,
                 !.rounded = @ + (IF k \in DOMAIN before
                                    THEN NearestEven(before[k].value)
                                    ELSE 0)]]

(***************************************************************************)
(* The listener thread and the read callback.                              *)
(***************************************************************************)
\* statsd_network_read: recv() one datagram into buffer[4096], cut it to
\* 4095 bytes, and start statsd_parse_buffer on it.
statsd_network_read(d) ==
  /\ net_buffer.null
  /\ n_datagrams < MaxDatagrams
  /\ net_buffer' = Str(SubSeq(d.text, 1, Min(Len(d.text), 4095)))
  /\ net_intents' = d.intents
  /\ n_datagrams' = n_datagrams + 1
  /\ UNCHANGED <<conf, metrics_tree, dispatched, read_pre, read_post,
                 line_log, ghost, ghost_pre, n_reads>>

\* Where the loop of statsd_parse_buffer goes after a line: `buffer = next'.
NextBuffer_StopOnError(next, status) == IF status # 0 THEN NullStr ELSE next

NextBuffer(next, status) == next

\* One iteration of the loop of statsd_parse_buffer, with the memory of the
\* line's update as mem says.
statsd_parse_buffer_mem(mem) ==
  /\ ~net_buffer.null
  /\ LET parsed(line, next, r, intent) ==
           /\ metrics_tree' = r.tree
           /\ net_buffer' = NextBuffer(next, r.status)
           /\ line_log' = [n |-> line_log.n + 1, text |-> line,
                           status |-> r.status, before |-> metrics_tree,
                           after |-> r.tree, intent |-> intent,
                           prev_status |-> line_log.status, mem |-> mem]
           /\ net_intents' = IF net_intents = <<>> THEN <<>>
                             ELSE Tail(net_intents)
           /\ ghost' = IF r.status = 0 THEN GhostApply(ghost, intent)
                       ELSE ghost
         step(line, next) ==
           IF line = <<>>
             THEN /\ net_buffer' = next
                  /\ UNCHANGED <<metrics_tree, line_log, net_intents, ghost>>
             ELSE parsed(line, next,
                         statsd_parse_line(metrics_tree, line, mem),
                         IF net_intents = <<>> THEN NoIntent
                         ELSE Head(net_intents))
         \* nl: the first newline of the buffer
         cut(buffer, nl) ==
           step(IF nl = 0 THEN buffer ELSE SubSeq(buffer, 1, nl - 1),
                IF nl = 0 THEN NullStr
                ELSE Str(SubSeq(buffer, nl + 1, Len(buffer))))
     IN cut(net_buffer.s, strchr(net_buffer.s, "\n"))
  /\ UNCHANGED <<conf, dispatched, read_pre, read_post, ghost_pre,
                 n_datagrams, n_reads>>

\* ... with every allocation succeeding.
statsd_parse_buffer_step == statsd_parse_buffer_mem("ok")

\* statsd_read, whole: it runs under metrics_lock.
statsd_read ==
  /\ n_reads < MaxReads
  /\ LET r == statsd_read_result(metrics_tree, now) IN
     /\ metrics_tree' = r.tree
     /\ dispatched' = r.out
     /\ read_pre' = metrics_tree
     /\ read_post' = r.tree
     /\ ghost_pre' = ghost
     /\ ghost' = GhostAfterRead(ghost, metrics_tree, r.tree, r.out)
  /\ n_reads' = n_reads + 1
  /\ UNCHANGED <<conf, net_buffer, line_log, net_intents, n_datagrams>>

\* The shipper, configured and idle, in the specifications of statsd.
BQuiet ==
  /\ wifxudp_config_packet_size = NET_DEFAULT_PACKET_SIZE
  /\ wifxudp_config_ttl = 0
  /\ sending_sockets = <<>>
  /\ send_buffer = <<>>
  /\ send_buffer_ptr = 0
  /\ send_buffer_fill = 0
  /\ send_buffer_last_update = 0
  /\ now = 1
  /\ wifx_state = "running"
  /\ written = <<>>
  /\ flushed = <<>>
  /\ XQuiet

SParse == statsd_parse_buffer_step /\ UNCHANGED <<bvars, xvars>>

SRead == statsd_read /\ UNCHANGED <<bvars, xvars>>

Name_a == <<"a">>
Name_b == <<"b">>

(***************************************************************************)
(* Counters.                                                               *)
(***************************************************************************)
CounterLines ==
  { CounterLine(Name_a, <<"3">>, <<>>, 300),
    CounterLine(Name_a, <<"1">>, <<"0", ".", "5">>, 200),
    CounterLine(Name_a, <<"1", ".", "5">>, <<>>, 150),
    CounterLine(Name_a, <<"-", "3">>, <<>>, 0 - 300),
    CounterLine(Name_b, <<"0", ".", "5">>, <<"0", ".", "2", "5">>, 200) }

CounterConfs ==
  { DefaultConf,
    [DefaultConf EXCEPT !.counter_sum = TRUE, !.counter_gauge = TRUE],
    [DefaultConf EXCEPT !.delete_counters = TRUE] }

CounterInit == BQuiet /\ \E c \in CounterConfs : SInit(c)

CounterRecv ==
  /\ \E l \in CounterLines : statsd_network_read(Datagram(<<l>>, FALSE))
  /\ UNCHANGED <<bvars, xvars>>

CounterNext == CounterRecv \/ SParse \/ SRead

SpecCounter == CounterInit /\ [][CounterNext]_vars

\* Counter lines whose value strtod reads as an infinity or a NaN, next to
\* two finite ones.  A decimal number too large for a double (some 310
\* digits) is read as an infinity as well.  What their sender meant is not a
\* number, so they carry no intent.
NonFiniteLines ==
  { CounterLine(Name_a, <<"3">>, <<>>, 300),
    CounterLine(Name_a, <<"1", ".", "5">>, <<>>, 150),
    BadLine(Name_a \o <<":", "i", "n", "f", "|", "c">>),
    BadLine(Name_a \o <<":", "-", "i", "n", "f", "|", "c">>),
    BadLine(Name_b \o <<":", "n", "a", "n", "|", "c">>) }

NonFiniteConfs ==
  { c @@ ("derive_cast" :> cast) :
      c \in { DefaultConf,
              [DefaultConf EXCEPT !.counter_sum = TRUE,
                                  !.counter_gauge = TRUE] },
      cast \in DeriveCasts }

NonFiniteInit == BQuiet /\ \E c \in NonFiniteConfs : SInit(c)

NonFiniteRecv ==
  /\ \E l \in NonFiniteLines : statsd_network_read(Datagram(<<l>>, FALSE))
  /\ UNCHANGED <<bvars, xvars>>

NonFiniteNext == NonFiniteRecv \/ SParse \/ SRead

SpecNonFinite == NonFiniteInit /\ [][NonFiniteNext]_vars

\* Counters under the four settings of CounterSum and CounterGauge.
OptionConfs ==
  { [DefaultConf EXCEPT !.counter_sum = cs, !.counter_gauge = cg] :
      cs \in BOOLEAN, cg \in BOOLEAN }

OptionInit == BQuiet /\ \E c \in OptionConfs : SInit(c)

OptionNext == CounterRecv \/ SParse \/ SRead

SpecOptions == OptionInit /\ [][OptionNext]_vars

(***************************************************************************)
(* Gauges.                                                                 *)
(***************************************************************************)
GaugeLines ==
  { GaugeLine(Name_a, <<"1", "0">>, FALSE, 1000),
    GaugeLine(Name_a, <<"+", "5">>, TRUE, 500),
    GaugeLine(Name_a, <<"-", "2">>, TRUE, 0 - 200),
    GaugeLine(Name_a, <<"0", ".", "5">>, FALSE, 50),
    GaugeLine(Name_b, <<"+", "1", ".", "5">>, TRUE, 150) }

GaugeConfs == { DefaultConf, [DefaultConf EXCEPT !.delete_gauges = TRUE] }

GaugeInit == BQuiet /\ \E c \in GaugeConfs : SInit(c)

GaugeRecv ==
  /\ \E l \in GaugeLines : statsd_network_read(Datagram(<<l>>, FALSE))
  /\ UNCHANGED <<bvars, xvars>>

GaugeNext == GaugeRecv \/ SParse \/ SRead

SpecGauge == GaugeInit /\ [][GaugeNext]_vars

(***************************************************************************)
(* Sets.                                                                   *)
(***************************************************************************)
SetLines ==
  { SetLine(Name_a, <<"x">>), SetLine(Name_a, <<"t">>),
    SetLine(Name_a, <<"x", "t">>), SetLine(Name_b, <<"x">>) }

SetConfs == { DefaultConf, [DefaultConf EXCEPT !.delete_sets = TRUE] }

SetInit == BQuiet /\ \E c \in SetConfs : SInit(c)

SetRecv ==
  /\ \E l \in SetLines : statsd_network_read(Datagram(<<l>>, FALSE))
  /\ UNCHANGED <<bvars, xvars>>

SetNext == SetRecv \/ SParse \/ SRead

SpecSet == SetInit /\ [][SetNext]_vars

(***************************************************************************)
(* Timers.  The durations are positive.                                    *)
(***************************************************************************)
TimerLines ==
  { TimerLine(Name_a, <<"1", "0", "0">>, <<>>, 10000),
    TimerLine(Name_a, <<"1", "0", "0">>, <<"0", ".", "5">>, 20000),
    TimerLine(Name_a, <<"2", "5">>, <<"0", ".", "2", "5">>, 10000),
    TimerLine(Name_b, <<"5", "0">>, <<>>, 5000) }

TimerConfs ==
  { [DefaultConf EXCEPT !.timer_count = TRUE],
    [DefaultConf EXCEPT !.timer_count = TRUE, !.delete_timers = TRUE],
    [DefaultConf EXCEPT !.timer_count = TRUE, !.timer_lower = TRUE,
                        !.timer_upper = TRUE, !.timer_sum = TRUE,
                        !.timer_percentile = <<90>>] }

TimerInit == BQuiet /\ \E c \in TimerConfs : SInit(c)

TimerRecv ==
  /\ \E l \in TimerLines : statsd_network_read(Datagram(<<l>>, FALSE))
  /\ UNCHANGED <<bvars, xvars>>

TimerNext == TimerRecv \/ SParse \/ SRead

SpecTimer == TimerInit /\ [][TimerNext]_vars

(***************************************************************************)
(* Datagrams of several lines, some of them malformed.                     *)
(***************************************************************************)
GoodCounter == CounterLine(Name_a, <<"3">>, <<>>, 300)
GoodGauge == GaugeLine(Name_a, <<"1", "0">>, FALSE, 1000)
GoodSet == SetLine(Name_a, <<"x">>)
GoodTimer == TimerLine(Name_a, <<"1", "0", "0">>, <<>>, 10000)

MalformedLines ==
  { BadLine(<<"a", ":", "1", "|", "x">>),                 \* unknown kind
    BadLine(<<"a", ":", "1", "|">>),                      \* no kind
    BadLine(<<"a", ":", "1", "x", "|", "c">>),            \* malformed value
    BadLine(<<"a", ":", "|", "c">>),                      \* empty value
    BadLine(<<"a", ":", "x", "|", "g">>),
    BadLine(<<"a", ":", "1", ".", ".", "|", "m", "s">>),
    BadLine(<<"a", "1", "|", "c">>),                      \* no ':'
    BadLine(<<"a", ":", "1", "c">>),                      \* no '|'
    BadLine(<<"a", ":", "1", "|", "c", "|", "@", "0">>),  \* rate 0
    BadLine(<<"a", ":", "1", "|", "c", "|", "@", "2">>),  \* rate above 1
    BadLine(<<"a", ":", "1", "|", "c", "|", "@", "-", "1">>),
    BadLine(<<"a", ":", "1", "|", "c", "|", "0", ".", "5">>), \* no '@'
    BadLine(<<"a", ":", "1", "|", "c", "|", "@">>),
    BadLine(<<"a", ":", "1", "|", "m", "s", "|", "@", "x">>),
    BadLine(<<"a", ":", "1", "|", "g", "|", "@", "0", ".", "5">>), \* rate on g
    BadLine(<<"a", ":", "x", "|", "s", "|", "@", "0", ".", "5">>) } \* and on s

\* Some of them, for the other shapes of datagram.
MalformedFew ==
  { BadLine(<<"a", ":", "1", "|", "x">>),
    BadLine(<<"a", "1", "|", "c">>),
    BadLine(<<"a", ":", "1", "|", "g", "|", "@", "0", ".", "5">>) }

ParseDatagrams ==
  { Datagram(<<GoodCounter, b, GoodSet>>, TRUE) : b \in MalformedLines }
    \cup { Datagram(<<GoodGauge, EmptyLine, b, EmptyLine, GoodTimer>>, FALSE) :
             b \in MalformedFew }
    \cup { Datagram(<<b>>, tr) : b \in MalformedFew, tr \in BOOLEAN }
    \cup { Datagram(<<GoodCounter, GoodGauge>>, TRUE) }

ParseInit == BQuiet /\ SInit(DefaultConf)

ParseRecv ==
  /\ n_datagrams < MaxParseDatagrams
  /\ \E d \in ParseDatagrams : statsd_network_read(d)
  /\ UNCHANGED <<bvars, xvars>>

ParseNext == ParseRecv \/ SParse \/ SRead

SpecParse == ParseInit /\ [][ParseNext]_vars

\* Updates whose allocations can fail: well-formed lines of the four kinds,
\* so that a line is refused only for want of memory.
ResourceLines ==
  { GoodCounter, GoodGauge, GoodSet, GoodTimer, SetLine(Name_a, <<"y">>) }

ResourceRecv ==
  /\ \E l \in ResourceLines : statsd_network_read(Datagram(<<l>>, FALSE))
  /\ UNCHANGED <<bvars, xvars>>

ResourceParse ==
  /\ \E mem \in MemEnv : statsd_parse_buffer_mem(mem)
  /\ UNCHANGED <<bvars, xvars>>

ResourceNext == ResourceRecv \/ ResourceParse \/ SRead

SpecResource == ParseInit /\ [][ResourceNext]_vars

\* Names and keys.  A datagram holds up to 4095 bytes, so a name can be far
\* longer than the DATA_MAX_NAME_LEN - 1 characters a key has room for.
\* LongName(s) is as long as a key allows, followed by s.
LongName(s) == [i \in 1..(DATA_MAX_NAME_LEN - 1) |-> "x"] \o s

KeyLines ==
  { GoodCounter, GoodGauge,
    CounterLine(Name_b, <<"3">>, <<>>, 300),
    CounterLine(LongName(<<>>), <<"3">>, <<>>, 300),
    CounterLine(LongName(<<"a">>), <<"3">>, <<>>, 300),
    CounterLine(LongName(<<"b">>), <<"1", ".", "5">>, <<>>, 150) }

KeyRecv ==
  /\ \E l \in KeyLines : statsd_network_read(Datagram(<<l>>, FALSE))
  /\ UNCHANGED <<bvars, xvars>>

KeyNext == KeyRecv \/ SParse \/ SRead

SpecKey == ParseInit /\ [][KeyNext]_vars

(***************************************************************************)
(* Lines with a third field.  A case is the line and what its sender put   *)
(* in it: the kind, whether the third field starts with '@', whether a     *)
(* number follows, and that number in hundredths; ok says whether the      *)
(* sender meant a valid line, of the amount given.                         *)
(***************************************************************************)
KindTxt == "c" :> <<"c">> @@ "ms" :> <<"m", "s">> @@ "g" :> <<"g">> @@
           "s" :> <<"s">>

RateCase(kind, vtxt, extra, at, numeric, finite, rate, ok, amount) ==
  [text |-> Name_a \o <<":">> \o vtxt \o <<"|">> \o KindTxt[kind] \o <<"|">>
              \o extra,
   kind |-> kind, at |-> at, numeric |-> numeric, finite |-> finite,
   rate |-> rate,
   intent |-> IF ok THEN [kind |-> kind, name |-> Name_a, amount |-> amount,
                          delta |-> FALSE, member |-> <<>>]
              ELSE NoIntent]

RateCases ==
  { RateCase("c", <<"1">>, <<"@", "0", ".", "5">>,
             TRUE, TRUE, TRUE, 50, TRUE, 200),
    RateCase("c", <<"3">>, <<"@", "1">>,
             TRUE, TRUE, TRUE, 100, TRUE, 300),
    RateCase("c", <<"1">>, <<"@", "0", ".", "0", "1">>,
             TRUE, TRUE, TRUE, 1, TRUE, 10000),
    RateCase("ms", <<"2", "5">>, <<"@", "0", ".", "2", "5">>,
             TRUE, TRUE, TRUE, 25, TRUE, 10000),
    RateCase("ms", <<"5", "0">>, <<"@", "1", ".", "0">>,
             TRUE, TRUE, TRUE, 100, TRUE, 5000),
    RateCase("c", <<"1">>, <<"@", "0">>,
             TRUE, TRUE, TRUE, 0, FALSE, 0),
    RateCase("c", <<"1">>, <<"@", "0", ".", "0">>,
             TRUE, TRUE, TRUE, 0, FALSE, 0),
    RateCase("c", <<"1">>, <<"@", "2">>,
             TRUE, TRUE, TRUE, 200, FALSE, 0),
    RateCase("c", <<"1">>, <<"@", "1", ".", "0", "1">>,
             TRUE, TRUE, TRUE, 101, FALSE, 0),
    RateCase("c", <<"1">>, <<"@", "-", "1">>,
             TRUE, TRUE, TRUE, 0 - 100, FALSE, 0),
    RateCase("c", <<"1">>, <<"0", ".", "5">>,
             FALSE, TRUE, TRUE, 50, FALSE, 0),
    RateCase("c", <<"1">>, <<"@", "i", "n", "f">>,
             TRUE, TRUE, FALSE, 0, FALSE, 0),
    RateCase("ms", <<"2", "5">>, <<"@", "n", "a", "n">>,
             TRUE, TRUE, FALSE, 0, FALSE, 0),
    RateCase("c", <<"1">>, <<"@">>,
             TRUE, FALSE, TRUE, 0, FALSE, 0),
    RateCase("c", <<"1">>, <<"@", "x">>,
             TRUE, FALSE, TRUE, 0, FALSE, 0),
    RateCase("c", <<"1">>, <<>>,
             FALSE, FALSE, TRUE, 0, FALSE, 0),
    RateCase("ms", <<"2", "5">>, <<"@", "0">>,
             TRUE, TRUE, TRUE, 0, FALSE, 0),
    RateCase("ms", <<"2", "5">>, <<"@", "1", ".", "5">>,
             TRUE, TRUE, TRUE, 150, FALSE, 0),
    RateCase("ms", <<"2", "5">>, <<"0", ".", "5">>,
             FALSE, TRUE, TRUE, 50, FALSE, 0),
    RateCase("g", <<"1", "0">>, <<"@", "0", ".", "5">>,
             TRUE, TRUE, TRUE, 50, FALSE, 0),
    RateCase("g", <<"1", "0">>, <<"@", "1">>,
             TRUE, TRUE, TRUE, 100, FALSE, 0),
    RateCase("s", <<"x">>, <<"@", "0", ".", "5">>,
             TRUE, TRUE, TRUE, 50, FALSE, 0),
    RateCase("s", <<"x">>, <<"@", "1">>,
             TRUE, TRUE, TRUE, 100, FALSE, 0) }

\* The lines of the cases, and lines of each kind without a third field.
RateLines ==
  { [text |-> c.text, intent |-> c.intent] : c \in RateCases }
    \cup { GoodCounter, GoodGauge, GoodSet, GoodTimer }

RateInit == BQuiet /\ SInit(DefaultConf)

RateRecv ==
  /\ n_datagrams < MaxParseDatagrams
  /\ \E l \in RateLines : statsd_network_read(Datagram(<<l>>, FALSE))
  /\ UNCHANGED <<bvars, xvars>>

RateNext == RateRecv \/ SParse \/ SRead

SpecRate == RateInit /\ [][RateNext]_vars

(***************************************************************************)
(* Cells of all four kinds, updated or idle between reads.                 *)
(***************************************************************************)
IdleLines == { GoodCounter, GoodGauge, GoodSet, GoodTimer }

IdleConfs ==
  { DefaultConf,
    [DefaultConf EXCEPT !.delete_counters = TRUE, !.delete_timers = TRUE,
                        !.delete_gauges = TRUE, !.delete_sets = TRUE],
    [DefaultConf EXCEPT !.delete_counters = TRUE, !.delete_sets = TRUE],
    [DefaultConf EXCEPT !.delete_timers = TRUE, !.delete_gauges = TRUE] }

IdleInit == BQuiet /\ \E c \in IdleConfs : SInit(c)

IdleRecv ==
  /\ \E l \in IdleLines : statsd_network_read(Datagram(<<l>>, FALSE))
  /\ UNCHANGED <<bvars, xvars>>

IdleNext == IdleRecv \/ SParse \/ SRead

SpecIdle == IdleInit /\ [][IdleNext]_vars

(***************************************************************************)
(* The listener and statsd_read as two threads around metrics_lock.  The   *)
(* listener parses a line without the lock and takes it to apply the       *)
(* update (statsd_metric_set, statsd_metric_add, statsd_handle_timer,      *)
(* statsd_handle_set); statsd_read takes it, visits the cells one by one,  *)
(* removes the cells on its list and gives it back.                        *)
(***************************************************************************)
MetricsLockFree_Broken(lock) == TRUE

\* pthread_mutex_lock(&metrics_lock) returns.
MetricsLockFree(lock) == lock = "free"

\* The line statsd_parse_buffer is at.
CurrentLine(buffer) ==
  IF strchr(buffer, "\n") = 0 THEN buffer
  ELSE SubSeq(buffer, 1, strchr(buffer, "\n") - 1)

\* The line at hand gets as far as the lock.
LineUpdates ==
  /\ CurrentLine(net_buffer.s) # <<>>
  /\ statsd_parse_line(metrics_tree, CurrentLine(net_buffer.s), "ok").status
       = 0

TableUnchanged ==
  UNCHANGED <<bvars, send_buffer_lock, wifx_pc, wire, last_call,
              network_thread_shutdown, sigterm_pending, shutdown_pc>>

TableRecv ==
  /\ net_pc = "poll"
  /\ \E l \in IdleLines : statsd_network_read(Datagram(<<l>>, FALSE))
  /\ UNCHANGED <<metrics_lock, read_iter, net_pc>>
  /\ TableUnchanged

\* The listener takes the lock for the line at hand.
TableLineLock ==
  /\ net_pc = "poll"
  /\ ~net_buffer.null
  /\ LineUpdates
  /\ MetricsLockFree(metrics_lock)
  /\ metrics_lock' = "listener"
  /\ net_pc' = "locked"
  /\ UNCHANGED <<svars, read_iter>>
  /\ TableUnchanged

\* The line is dealt with: refused without the lock, or applied and the lock
\* given back.
TableLine ==
  /\ ~net_buffer.null
  /\ IF LineUpdates
       THEN net_pc = "locked" /\ net_pc' = "poll" /\ metrics_lock' = "free"
       ELSE net_pc = "poll" /\ UNCHANGED <<net_pc, metrics_lock>>
  /\ statsd_parse_buffer_step
  /\ UNCHANGED read_iter
  /\ TableUnchanged

\* statsd_read takes the lock and gets its iterator.
TableReadLock ==
  /\ read_iter.pc = "idle"
  /\ n_reads < MaxReads
  /\ MetricsLockFree(metrics_lock)
  /\ metrics_lock' = "read"
  /\ read_iter' = [pc |-> "iterate", start |-> metrics_tree,
                   ghost |-> ghost, todo |-> SortedKeys(DOMAIN metrics_tree),
                   out |-> <<>>, to_be_deleted |-> <<>>]
  /\ UNCHANGED <<svars, net_pc>>
  /\ TableUnchanged

\* One turn of the while loop, on the table as it is.
TableReadCell ==
  /\ read_iter.pc = "iterate"
  /\ read_iter.todo # <<>>
  /\ LET turn(acc) ==
           /\ metrics_tree' = acc.tree
           /\ read_iter' = [read_iter EXCEPT
                              !.todo = Tail(@), !.out = acc.out,
                              !.to_be_deleted = acc.to_be_deleted]
     IN turn(ReadLoop(<<Head(read_iter.todo)>>,
                      [tree |-> metrics_tree, out |-> read_iter.out,
                       to_be_deleted |-> read_iter.to_be_deleted], now))
  /\ UNCHANGED <<conf, net_buffer, dispatched, read_pre, read_post, line_log,
                 net_intents, ghost, ghost_pre, n_datagrams, n_reads,
                 metrics_lock, net_pc>>
  /\ TableUnchanged

\* The removals after the loop, and the unlock.
TableReadDone ==
  /\ read_iter.pc = "iterate"
  /\ read_iter.todo = <<>>
  /\ LET left(tree) ==
           /\ metrics_tree' = tree
           /\ read_post' = tree
           /\ ghost' = GhostAfterRead(ghost, read_iter.start, tree,
                                      read_iter.out)
     IN left(RemoveDeleted(metrics_tree, read_iter.to_be_deleted))
  /\ dispatched' = read_iter.out
  /\ read_pre' = read_iter.start
  /\ ghost_pre' = read_iter.ghost
  /\ n_reads' = n_reads + 1
  /\ metrics_lock' = "free"
  /\ read_iter' = [pc |-> "idle"]
  /\ UNCHANGED <<conf, net_buffer, line_log, net_intents, n_datagrams, net_pc>>
  /\ TableUnchanged

TableNext ==
  \/ TableRecv \/ TableLineLock \/ TableLine
  \/ TableReadLock \/ TableReadCell \/ TableReadDone

SpecTable == IdleInit /\ [][TableNext]_vars

(***************************************************************************)
(* statsd_read with the clock running.  A cell is submitted in steps: the  *)
(* values of its plugin_dispatch_values() calls are prepared when the cell *)
(* is reached (for a timer this is where `vl.time = cdtime()' runs), and   *)
(* each call is a step of its own, with the clock free to advance between  *)
(* two of them.  Each call is logged with the clock at the time of the     *)
(* call (at) and the clock when the cell was reached (begun).              *)
(***************************************************************************)
VlTime_Resampled(vl_time, clock) == IF vl_time = 0 THEN 0 ELSE clock

\* vl.time at a plugin_dispatch_values(&vl) call: nothing assigns it after
\* the cell was reached.
VlTime(vl_time, clock) == vl_time

\* Two timer cells; every measurement of a timer asked for.
StampLines == { GoodTimer, TimerLine(Name_b, <<"5", "0">>, <<>>, 5000) }

StampConf ==
  [DefaultConf EXCEPT !.timer_count = TRUE, !.timer_lower = TRUE,
                      !.timer_upper = TRUE, !.timer_sum = TRUE,
                      !.timer_percentile = <<90>>]

StampInit == BQuiet /\ SInit(StampConf)

StampUnchanged ==
  UNCHANGED <<send_buffer_lock, wifx_pc, wire, last_call, net_pc,
              network_thread_shutdown, sigterm_pending, shutdown_pc>>

StampRecv ==
  /\ n_datagrams < MaxParseDatagrams
  /\ \E l \in StampLines : statsd_network_read(Datagram(<<l>>, FALSE))
  /\ UNCHANGED <<bvars, xvars>>

\* A line is applied under metrics_lock.
StampLine ==
  /\ MetricsLockFree(metrics_lock)
  /\ statsd_parse_buffer_step
  /\ UNCHANGED <<bvars, xvars>>

StampReadLock ==
  /\ read_iter.pc = "idle"
  /\ n_reads < MaxReads
  /\ MetricsLockFree(metrics_lock)
  /\ metrics_lock' = "read"
  /\ read_iter' = [pc |-> "iterate", start |-> metrics_tree,
                   ghost |-> ghost, todo |-> SortedKeys(DOMAIN metrics_tree),
                   out |-> <<>>, to_be_deleted |-> <<>>, pending |-> <<>>]
  /\ UNCHANGED <<bvars, svars>>
  /\ StampUnchanged

\* The loop reaches a cell: the test for deletion, and what
\* statsd_metric_submit_unsafe prepares.
StampCell ==
  /\ read_iter.pc = "iterate"
  /\ read_iter.pending = <<>>
  /\ read_iter.todo # <<>>
  /\ LET turn(acc) ==
           /\ metrics_tree' = acc.tree
           /\ read_iter' = [read_iter EXCEPT
                              !.todo = Tail(@),
                              !.pending = [i \in DOMAIN acc.out |->
                                             [key |-> acc.out[i].key,
                                              vl |-> acc.out[i].vl,
                                              begun |-> now]],
                              !.to_be_deleted = acc.to_be_deleted]
     IN turn(ReadLoop(<<Head(read_iter.todo)>>,
                      [tree |-> metrics_tree, out |-> <<>>,
                       to_be_deleted |-> read_iter.to_be_deleted], now))
  /\ UNCHANGED <<conf, net_buffer, dispatched, read_pre, read_post, line_log,
                 net_intents, ghost, ghost_pre, n_datagrams, n_reads,
                 metrics_lock>>
  /\ UNCHANGED bvars
  /\ StampUnchanged

\* One plugin_dispatch_values(&vl).
StampDispatch ==
  /\ read_iter.pc = "iterate"
  /\ read_iter.pending # <<>>
  /\ LET d == Head(read_iter.pending) IN
     read_iter' = [read_iter EXCEPT
                     !.pending = Tail(@),
                     !.out = Append(@, [key |-> d.key,
                                        vl |-> [d.vl EXCEPT
                                                  !.time = VlTime(@, now)],
                                        begun |-> d.begun, at |-> now])]
  /\ UNCHANGED <<bvars, svars, metrics_lock>>
  /\ StampUnchanged

\* The removals after the loop, and the unlock.
StampReadDone ==
  /\ read_iter.pc = "iterate"
  /\ read_iter.pending = <<>>
  /\ TableReadDone

\* cdtime() advances, wherever the threads stand.
StampTick ==
  /\ Tick
  /\ UNCHANGED <<svars, xvars>>

StampNext ==
  \/ StampRecv \/ StampLine \/ StampReadLock \/ StampCell \/ StampDispatch
  \/ StampReadDone \/ StampTick

SpecStamp == StampInit /\ [][StampNext]_vars

(***************************************************************************)
(* statsd_network_thread and statsd_shutdown.  The listener tests          *)
(* network_thread_shutdown ("check"), calls poll with no timeout           *)
(* ("enter_poll"), sleeps in it ("poll") until a datagram is there or a    *)
(* signal handler has run, reads and parses the datagram ("read"), and     *)
(* tests again.  shutdown sets the flag, sends SIGTERM to the thread and   *)
(* joins it.  The daemon has a handler for SIGTERM: delivered to a thread  *)
(* asleep in poll it makes poll fail with EINTR; delivered anywhere else   *)
(* it runs and returns.  Datagrams arrive or do not.                       *)
(***************************************************************************)
ListenerUnchanged ==
  UNCHANGED <<bvars, send_buffer_lock, wifx_pc, wire, last_call,
              metrics_lock, read_iter>>

\* `while (!network_thread_shutdown)'.
NetCheck ==
  /\ net_pc = "check"
  /\ net_pc' = IF network_thread_shutdown THEN "exited" ELSE "enter_poll"
  /\ UNCHANGED <<svars, network_thread_shutdown, sigterm_pending, shutdown_pc>>
  /\ ListenerUnchanged

\* poll(fds, fds_num, -1) is entered.
NetEnterPoll ==
  /\ net_pc = "enter_poll"
  /\ net_pc' = "poll"
  /\ UNCHANGED <<svars, network_thread_shutdown, sigterm_pending, shutdown_pc>>
  /\ ListenerUnchanged

\* A datagram is there: poll returns and statsd_network_read receives it.
NetRecv ==
  /\ net_pc = "poll"
  /\ \E l \in IdleLines : statsd_network_read(Datagram(<<l>>, FALSE))
  /\ net_pc' = "read"
  /\ UNCHANGED <<network_thread_shutdown, sigterm_pending, shutdown_pc>>
  /\ ListenerUnchanged

\* statsd_parse_buffer, line by line, and back to the test of the flag.
NetParse ==
  /\ net_pc = "read"
  /\ IF net_buffer.null
       THEN net_pc' = "check" /\ UNCHANGED svars
       ELSE statsd_parse_buffer_step /\ UNCHANGED net_pc
  /\ UNCHANGED <<network_thread_shutdown, sigterm_pending, shutdown_pc>>
  /\ ListenerUnchanged

\* The handler of SIGTERM runs in the listener thread.
SigDeliver ==
  /\ sigterm_pending
  /\ net_pc # "exited"
  /\ sigterm_pending' = FALSE
  /\ net_pc' = IF net_pc = "poll" THEN "check" ELSE net_pc
  /\ UNCHANGED <<svars, network_thread_shutdown, shutdown_pc>>
  /\ ListenerUnchanged

\* statsd_shutdown up to the end of pthread_join.
ShutdownStep ==
  /\ CASE shutdown_pc = "idle" ->
            /\ network_thread_shutdown' = TRUE
            /\ shutdown_pc' = "kill"
            /\ UNCHANGED sigterm_pending
       [] shutdown_pc = "kill" ->
            /\ sigterm_pending' = TRUE
            /\ shutdown_pc' = "join"
            /\ UNCHANGED network_thread_shutdown
       [] shutdown_pc = "join" ->
            /\ net_pc = "exited"
            /\ shutdown_pc' = "joined"
            /\ UNCHANGED <<network_thread_shutdown, sigterm_pending>>
       [] OTHER -> FALSE
  /\ UNCHANGED <<svars, net_pc>>
  /\ ListenerUnchanged

\* The steps of the listener outside a datagram.
ListenerRun == NetCheck \/ NetEnterPoll

ListenerNext ==
  ListenerRun \/ NetParse \/ NetRecv \/ SigDeliver \/ ShutdownStep

\* Every thread that can run does run: the listener's steps outside a
\* datagram, the parsing of a datagram it has received (it does not stay in
\* "read"), the delivery of a pending signal, and shutdown.  Nothing makes
\* a datagram arrive.
SpecListener ==
  /\ ParseInit
  /\ [][ListenerNext]_vars
  /\ WF_vars(ListenerRun)
  /\ []<>(net_pc # "read")
  /\ WF_vars(SigDeliver)
  /\ WF_vars(ShutdownStep)

(***************************************************************************)
(* Scenario S7 and its neighbours: MaxPacketSize 1024, at most ten writes  *)
(* of 100 or 904 bytes, then shutdown; no flush callback, no clock.        *)
(***************************************************************************)
S7Lens == {100, 904}

S7Init == BInit /\ wifxudp_config_packet_size = 1024

S7Write ==
  /\ \E status \in S7Lens :
       Len(written) < 10 /\ write_influxdb_udp_write(status)
  /\ UNCHANGED <<svars, xvars>>

S7Next == S7Write \/ BShutdown

SpecS7 == S7Init /\ [][S7Next]_vars

(***************************************************************************)
(* The flush callback seen from the wire: the default MaxPacketSize,       *)
(* points of 100 bytes (so that no write flushes), the flush callback with *)
(* the system calls of every endpoint recorded.                            *)
(***************************************************************************)
SendServers == 2

LastTwo(seq) == IF Len(seq) <= 2 THEN seq ELSE Tail(seq)

SendConfigured(servers) ==
  /\ wifxudp_config_packet_size = NET_DEFAULT_PACKET_SIZE
  /\ wifxudp_config_ttl = 0
  /\ sending_sockets = wifxudp_config_set_server(servers)
  /\ send_buffer = <<>>
  /\ send_buffer_ptr = 0
  /\ send_buffer_fill = 0
  /\ send_buffer_last_update = 0
  /\ now = 1
  /\ wifx_state = "running"
  /\ written = <<>>
  /\ flushed = <<>>
  /\ SQuiet
  /\ send_buffer_lock = "free"
  /\ wire = <<>>
  /\ last_call = [op |-> "none"]
  /\ metrics_lock = "free"
  /\ read_iter = [pc |-> "idle"]
  /\ net_pc = "poll"
  /\ network_thread_shutdown = FALSE
  /\ sigterm_pending = FALSE
  /\ shutdown_pc = "idle"

SendWrite ==
  /\ Len(written) < MaxWrites
  /\ write_influxdb_udp_write(100)
  /\ last_call' = [op |-> "write"]
  /\ UNCHANGED <<svars, send_buffer_lock, wifx_pc, wire, metrics_lock,
                 read_iter, net_pc, network_thread_shutdown, sigterm_pending,
                 shutdown_pc>>

\* A flush callback with the system calls going one of the ways Envs gives.
SendFlushWith(Envs(_, _)) ==
  /\ \E timeout \in FlushTimeouts :
       \E e \in (IF FlushDue(send_buffer_fill, send_buffer_last_update,
                             timeout, now)
                   THEN Envs(sending_sockets, now) ELSE {<<>>}) :
         /\ write_influxdb_udp_flush_calls(timeout, e, TRUE)
         /\ last_call' = [op |-> "flush", timeout |-> timeout, t |-> now,
                          pre |-> BState]
         /\ wire' =
              IF FlushDue(send_buffer_fill, send_buffer_last_update, timeout,
                          now)
                THEN LastTwo(Append(wire,
                       [t |-> now, socks |-> sending_sockets,
                        conn |-> [i \in DOMAIN e |-> e[i].conn],
                        buffer |-> Buffer(BState, TRUE),
                        events |-> write_influxdb_send_buffers(
                                     sending_sockets, Buffer(BState, TRUE),
                                     now, e).events]))
                ELSE wire
  /\ UNCHANGED <<svars, send_buffer_lock, wifx_pc, metrics_lock,
                 read_iter, net_pc, network_thread_shutdown, sigterm_pending,
                 shutdown_pc>>

SendFlush == SendFlushWith(EnvsRetryFor)

\* Two endpoints, the clock standing still.
SendNext == SendWrite \/ SendFlush

SpecSend ==
  SendConfigured(SendServers) /\ wifx_pc = <<>> /\ [][SendNext]_vars

\* One endpoint, the clock running.
GateNext == SendWrite \/ SendFlush \/ BTick

SpecGate == SendConfigured(1) /\ wifx_pc = <<>> /\ [][GateNext]_vars

\* sockent_client_connect on endpoints with a resolve interval.  Nothing in
\* write_influxdb_udp.c sets resolve_interval, so these endpoints are inputs
\* of the function, not states of the plugin: fresh ones, and connected ones
\* whose deadline is at, before or after the clock.
StaleEndpoints ==
  { [sockent_create(1) EXCEPT !.resolve_interval = ri] : ri \in {0, 1} }
    \cup { [sockent_create(1) EXCEPT !.fd = 3, !.addr = "cached",
                                     !.resolve_interval = 1,
                                     !.next_resolve_reconnect = d] :
             d \in 1..(MaxTime + 1) }

StaleInit ==
  /\ wifxudp_config_packet_size = NET_DEFAULT_PACKET_SIZE
  /\ wifxudp_config_ttl = 0
  /\ \E se \in StaleEndpoints : sending_sockets = <<se>>
  /\ send_buffer = <<>>
  /\ send_buffer_ptr = 0
  /\ send_buffer_fill = 0
  /\ send_buffer_last_update = 0
  /\ now = 1
  /\ wifx_state = "running"
  /\ written = <<>>
  /\ flushed = <<>>
  /\ SQuiet
  /\ XQuiet

SpecStale == StaleInit /\ [][GateNext]_vars

\* Every way the system calls of a flush can go: each connect outcome with
\* each run of sendto results.
EnvsAnyFor(socks, t) ==
  { envs \in [DOMAIN socks -> [conn : ConnectEnv, send : SendEnvRetry]] :
      \A i \in DOMAIN socks :
        SocketReused(socks[i], t) => envs[i].conn = "ok" }

EndpointFlush == SendFlushWith(EnvsAnyFor)

\* One endpoint of StaleEndpoints, the clock running.
EndpointNext == SendWrite \/ EndpointFlush \/ BTick

SpecEndpoint == StaleInit /\ [][EndpointNext]_vars

\* The plugin from its configuration on: the Server directives, then
\* write_influxdb_udp_init, then the callbacks.  (TimeToLive and
\* MaxPacketSize store one int each and leave the endpoints alone; SpecConfig
\* has them.)  The write callback is registered only when a Server directive
\* made an endpoint.
PluginWrite == sending_sockets # <<>> /\ SendWrite

\* Connect succeeds or fails, sendto succeeds or fails for good.  An endpoint
\* without a socket is left the same by every way connect can fail, so one
\* of them stands for all.
EnvsPlainFor(socks, t) ==
  { envs \in EnvsFor(socks, t) :
      \A i \in DOMAIN socks : envs[i].conn \in {"ok", "gai_fail"} }

PluginFlush == SendFlushWith(EnvsPlainFor)

PluginNext ==
  \/ ConfigServer
  \/ ConfigDone
  \/ PluginWrite
  \/ PluginFlush
  \/ BShutdown
  \/ BTick

SpecPlugin == ConfigInit /\ [][PluginNext]_vars

(***************************************************************************)
(* The callbacks as threads.  The daemon calls write from its write        *)
(* threads, flush from whoever asks for one, and shutdown once.  write and *)
(* flush take send_buffer_lock on entry and give it back on return, so     *)
(* each is two steps: the lock, then the body with the unlock.  shutdown   *)
(* takes no lock; its steps are the test of send_buffer_fill, the sends of *)
(* flush_buffer, write_influxdb_udp_init_buffer, and the sfree with the    *)
(* disconnects.  A body that runs after the sfree writes to or reads freed *)
(* memory: the process may die of it.                                      *)
(***************************************************************************)
LockThreads == {"write", "flush", "shutdown"}

LockInit ==
  /\ SendConfigured(1)
  /\ wifx_pc = [t \in LockThreads |-> "idle"]

LockUnchanged ==
  UNCHANGED <<svars, wire, last_call, metrics_lock, read_iter, net_pc,
              network_thread_shutdown, sigterm_pending, shutdown_pc>>

\* pthread_mutex_lock(&send_buffer_lock) on entry of write or flush.  write
\* is unregistered by shutdown; flush is not.
LockEnter ==
  /\ \E t \in {"write", "flush"} :
       /\ wifx_pc[t] = "idle"
       /\ send_buffer_lock = "free"
       /\ t = "write" => wifx_state = "running" /\ Len(written) < MaxWrites
       /\ send_buffer_lock' = t
       /\ wifx_pc' = [wifx_pc EXCEPT ![t] = "locked"]
  /\ UNCHANGED bvars
  /\ LockUnchanged

\* The body of write and its unlock.
LockWrite ==
  /\ wifx_pc["write"] = "locked"
  /\ IF wifx_state = "running"
       THEN write_influxdb_udp_write(100)
       ELSE /\ wifx_state' \in {wifx_state, "crashed"}
            /\ UNCHANGED <<wifxudp_config_packet_size, wifxudp_config_ttl,
                           sending_sockets, send_buffer, send_buffer_ptr,
                           send_buffer_fill, send_buffer_last_update, now,
                           written, flushed>>
  /\ send_buffer_lock' = "free"
  /\ wifx_pc' = [wifx_pc EXCEPT !["write"] = "idle"]
  /\ LockUnchanged

\* The body of flush and its unlock.  After shutdown the fill is 0 unless a
\* write came in between, and then flush_buffer reads freed memory.
LockFlush ==
  /\ wifx_pc["flush"] = "locked"
  /\ IF wifx_state = "running"
       THEN \E timeout \in FlushTimeouts : write_influxdb_udp_flush(timeout)
       ELSE /\ wifx_state' \in (IF send_buffer_fill > 0
                                  THEN {wifx_state, "crashed"}
                                  ELSE {wifx_state})
            /\ UNCHANGED <<wifxudp_config_packet_size, wifxudp_config_ttl,
                           sending_sockets, send_buffer, send_buffer_ptr,
                           send_buffer_fill, send_buffer_last_update, now,
                           written, flushed>>
  /\ send_buffer_lock' = "free"
  /\ wifx_pc' = [wifx_pc EXCEPT !["flush"] = "idle"]
  /\ LockUnchanged

\* shutdown, step by step, without the lock.
LockShutdown ==
  /\ wifx_state = "running"
  /\ CASE wifx_pc["shutdown"] = "idle" ->
            /\ wifx_pc' = [wifx_pc EXCEPT
                             !["shutdown"] =
                               IF ShutdownFlushes(send_buffer_fill)
                                 THEN "send" ELSE "free"]
            /\ UNCHANGED bvars
       [] wifx_pc["shutdown"] = "send" ->
            /\ \E e \in EnvsFor(sending_sockets, now) :
                 BUpdate([BState EXCEPT
                            !.socks = write_influxdb_send_buffers(
                                        sending_sockets, Buffer(BState, TRUE),
                                        now, e).socks,
                            !.flushed = Append(@,
                                          [payload |-> Payload(BState, TRUE),
                                           size |-> send_buffer_fill,
                                           by |-> "shutdown"])])
            /\ wifx_pc' = [wifx_pc EXCEPT !["shutdown"] = "init"]
            /\ UNCHANGED <<wifxudp_config_packet_size, wifxudp_config_ttl,
                           now, wifx_state, written>>
       [] wifx_pc["shutdown"] = "init" ->
            /\ BUpdate(write_influxdb_udp_init_buffer(BState))
            /\ wifx_pc' = [wifx_pc EXCEPT !["shutdown"] = "free"]
            /\ UNCHANGED <<wifxudp_config_packet_size, wifxudp_config_ttl,
                           now, wifx_state, written>>
       [] wifx_pc["shutdown"] = "free" ->
            /\ sending_sockets' =
                 [i \in DOMAIN sending_sockets |->
                    sockent_client_disconnect(sending_sockets[i])]
            /\ wifx_state' = "shutdown"
            /\ wifx_pc' = [wifx_pc EXCEPT !["shutdown"] = "done"]
            /\ UNCHANGED <<wifxudp_config_packet_size, wifxudp_config_ttl,
                           send_buffer, send_buffer_ptr, send_buffer_fill,
                           send_buffer_last_update, now, written, flushed>>
  /\ UNCHANGED send_buffer_lock
  /\ LockUnchanged

LockNext == LockEnter \/ LockWrite \/ LockFlush \/ LockShutdown

SpecLock == LockInit /\ [][LockNext]_vars

(***************************************************************************)
(* Claims about the send buffer.                                           *)
(***************************************************************************)
RECURSIVE ConcatPayloads(_)
ConcatPayloads(fs) ==
  IF fs = <<>> THEN <<>> ELSE Head(fs).payload \o ConcatPayloads(Tail(fs))

RECURSIVE SumLen(_)
SumLen(chunks) ==
  IF chunks = <<>> THEN 0 ELSE Head(chunks).len + SumLen(Tail(chunks))

Points(chunks) ==
  [i \in DOMAIN chunks |-> [id |-> chunks[i].id, len |-> chunks[i].len]]

FlushesBy(bys) == { i \in DOMAIN flushed : flushed[i].by \in bys }

\* C1: in every reachable state the send buffer's fill is at most the
\* configured packet size.
C1_FillWithinPacketSize == send_buffer_fill <= wifxudp_config_packet_size

\* C2: no appended point is split across datagrams: every flushed payload
\* holds whole points only and is exactly their concatenation, and the
\* payloads in flush order, followed by what is still buffered, are the
\* accepted points in write order, each once.
C2_NoPointSplit ==
  /\ \A i \in DOMAIN flushed :
       /\ \A j \in DOMAIN flushed[i].payload : flushed[i].payload[j].whole
       /\ flushed[i].size = SumLen(flushed[i].payload)
  /\ Points(ConcatPayloads(flushed)) \o Points(send_buffer) = written

\* The state scenario S7 ends in: ten points of 100 bytes written with
\* MaxPacketSize 1024, then shutdown.
S7Done ==
  /\ wifx_state = "shutdown"
  /\ wifxudp_config_packet_size = 1024
  /\ written = [i \in 1..10 |-> [id |-> i, len |-> 100]]

\* C10 as stated: S7 ends with exactly one flush during the writes and one
\* flush on shutdown, no datagram above 1024 bytes.
C10_S7_Original ==
  S7Done =>
    /\ Cardinality(FlushesBy({"write_pre", "write_post"})) = 1
    /\ Cardinality(FlushesBy({"shutdown"})) = 1
    /\ \A i \in DOMAIN flushed : flushed[i].size <= 1024

\* C10 amended: S7 ends with exactly one flush, made by the tenth write once
\* it leaves 24 < 120 free bytes (a datagram of the ten points, 1000 bytes);
\* shutdown finds the buffer empty and flushes nothing; fewer than ten such
\* writes flush nothing.
C10_S7_Amended ==
  /\ S7Done =>
       /\ Len(flushed) = 1
       /\ flushed[1].by = "write_post"
       /\ flushed[1].size = 1000
       /\ Points(flushed[1].payload) = written
       /\ FlushesBy({"shutdown"}) = {}
       /\ \A i \in DOMAIN flushed : flushed[i].size <= 1024
  /\ (/\ wifx_state = "running"
      /\ Len(written) < 10
      /\ \A i \in DOMAIN written : written[i].len = 100)
       => flushed = <<>>

C10_S7_Witness == S7Done /\ Len(flushed) = 1 /\ send_buffer_fill = 0

\* The calls that end an endpoint's turn in a flush.
Terminal == {"connect_failed", "sendto", "sendto_failed"}

SendtoCalls == {"sendto", "sendto_again", "sendto_failed"}

\* The positions of the calls node n saw in these events.
CallsOf(events, n) == { i \in DOMAIN events : events[i].node = n }

\* The last flush callback did call flush_buffer.
LastFlushRan ==
  /\ last_call.op = "flush"
  /\ Len(flushed) = Len(last_call.pre.flushed) + 1

\* C15: a sendto that fails for good is the endpoint's last call of that
\* flush and leaves the endpoint without descriptor and without cached
\* address, and the next flush starts that endpoint with a new getaddrinfo; a
\* sendto that is interrupted is followed at once by another sendto on the
\* same endpoint, with no connect in between.
C15_FatalSendDisconnects ==
  \A r \in DOMAIN wire :
    \A i \in DOMAIN wire[r].events :
      LET ev == wire[r].events
          n == ev[i].node
      IN
      /\ ev[i].call = "sendto_failed" =>
           /\ \A j \in CallsOf(ev, n) : j <= i
           /\ r = Len(wire) =>
                \A k \in DOMAIN sending_sockets :
                  sending_sockets[k].node = n =>
                    /\ sending_sockets[k].fd = -1
                    /\ sending_sockets[k].addr = "NULL"
           /\ r < Len(wire) =>
                \E j \in CallsOf(wire[r + 1].events, n) :
                  /\ wire[r + 1].events[j].call = "getaddrinfo"
                  /\ \A l \in CallsOf(wire[r + 1].events, n) : j <= l
      /\ ev[i].call = "sendto_again" =>
           /\ i + 1 \in DOMAIN ev
           /\ ev[i + 1].node = n
           /\ ev[i + 1].call \in SendtoCalls

\* Two flushes: in the first the sendto of node 1 failed for good and that of
\* node 2 was interrupted and then went through; the second began with a
\* getaddrinfo for node 1.
C15_Witness ==
  /\ Len(wire) = 2
  /\ \E i, j \in DOMAIN wire[1].events :
       /\ wire[1].events[i] = Event([node |-> 1], "sendto_failed",
                                    wire[1].buffer)
       /\ wire[1].events[j] = Event([node |-> 2], "sendto_again",
                                    wire[1].buffer)
       /\ j + 1 \in DOMAIN wire[1].events
       /\ wire[1].events[j + 1].call = "sendto"
  /\ wire[2].events[1] = Event([node |-> 1], "getaddrinfo", wire[2].buffer)

\* The first call the endpoint of flush r saw.
FirstCall(r) == wire[r].events[1].call

C16_EveryEndpointInOrder ==
  /\ \A r \in DOMAIN wire :
       LET ev == wire[r].events IN
       /\ \A n \in 1..SendServers :
            Cardinality({ i \in CallsOf(ev, n) : ev[i].call \in Terminal }) = 1
       /\ \A i, j \in DOMAIN ev : i < j => ev[i].node <= ev[j].node
       /\ \A i \in DOMAIN ev :
            ev[i].buffer = wire[r].buffer /\ ev[i].buffer.size > 0
  /\ LastFlushRan =>
       /\ send_buffer_fill = 0
       /\ send_buffer_ptr = 0
       /\ send_buffer = <<>>
       /\ wire # <<>>
       /\ wire[Len(wire)].buffer.size = last_call.pre.fill
       /\ Points(wire[Len(wire)].buffer.payload) = Points(last_call.pre.buf)

\* A flush in which node 1 could not connect and the sendto of node 2 failed:
\* both had their turn, and the buffer of two points is empty afterwards.
C16_Witness ==
  /\ LastFlushRan
  /\ last_call.pre.fill = 200
  /\ send_buffer_fill = 0
  /\ LET ev == wire[Len(wire)].events IN
       /\ Len(ev) = 4
       /\ ev[2].node = 1 /\ ev[2].call = "connect_failed"
       /\ ev[4].node = 2 /\ ev[4].call = "sendto_failed"

\* C17: the gate of the flush callback.  Called with threshold min_age it
\* sends the buffer and empties it if the buffer holds something and min_age
\* is 0 or the last update is at least min_age old; otherwise it sends
\* nothing and leaves the fill, the contents and last_update as they were.
C17_FlushGate ==
  last_call.op = "flush" =>
    LET pre == last_call.pre
        min_age == last_call.timeout
    IN
    IF pre.fill > 0 /\ (min_age = 0 \/ pre.last + min_age <= last_call.t)
      THEN /\ send_buffer_fill = 0
           /\ send_buffer = <<>>
           /\ Len(flushed) = Len(pre.flushed) + 1
           /\ flushed[Len(flushed)].size = pre.fill
           /\ flushed[Len(flushed)].by = "flush"
           /\ Points(flushed[Len(flushed)].payload) = Points(pre.buf)
      ELSE /\ send_buffer_fill = pre.fill
           /\ send_buffer = pre.buf
           /\ send_buffer_last_update = pre.last
           /\ flushed = pre.flushed

\* A flush with threshold 1 called when the last update is exactly 1 old: it
\* sent the buffer.
C17_Witness ==
  /\ last_call.op = "flush"
  /\ last_call.timeout = 1
  /\ last_call.pre.fill > 0
  /\ last_call.pre.last + 1 = last_call.t
  /\ send_buffer_fill = 0
  /\ Len(flushed) = Len(last_call.pre.flushed) + 1

\* The threads that stand where they change the buffer, its fill, its
\* pointer or last_update: write and flush between their lock and unlock,
\* shutdown from its sends to the end of write_influxdb_udp_init_buffer.
InBuffer ==
  { t \in DOMAIN wifx_pc :
      \/ t \in {"write", "flush"} /\ wifx_pc[t] = "locked"
      \/ t = "shutdown" /\ wifx_pc[t] \in {"send", "init"} }

\* C11: every thread that is changing the send buffer holds
\* send_buffer_lock, so no two threads are changing it at once.
C11_BufferUnderLock ==
  /\ \A t \in InBuffer : send_buffer_lock = t
  /\ Cardinality(InBuffer) <= 1

(***************************************************************************)
(* Claims about statsd.                                                    *)
(***************************************************************************)
Abs(x) == IF x >= 0 THEN x ELSE 0 - x

KeysOfType(tree, type) == { k \in DOMAIN tree : tree[k].type = type }

\* The dispatches of the last read with this type and type-instance suffix.
Emitted(type, suffix) ==
  { i \in DOMAIN dispatched :
      dispatched[i].vl.type = type /\ dispatched[i].vl.suffix = suffix }

C9_TotalMonotone ==
  \A k \in DOMAIN ghost :
    ghost[k].emitted >= 2 => ghost[k].last_total >= ghost[k].prev_total

\* The delete-on-idle flag of a kind, as configured.
DeleteFlag(type) ==
  CASE type = "STATSD_COUNTER" -> conf.delete_counters
    [] type = "STATSD_TIMER" -> conf.delete_timers
    [] type = "STATSD_GAUGE" -> conf.delete_gauges
    [] type = "STATSD_SET" -> conf.delete_sets

\* A cell had no accepted line between the read before the last and the last.
Idle(k) == k \in DOMAIN ghost_pre /\ ghost_pre[k].lines = 0

Gone(k) == k \notin DOMAIN read_post

Silent(k) == DispatchesOf(dispatched, k) = {}

\* C4: idle deletion.  Of the cells in the table when the last read began,
\* those of a kind with the delete flag on were removed and not emitted if
\* they were idle, and were emitted and kept if they were not; those of a
\* kind with the flag off were emitted and kept when idle.
C4_IdleDeletion ==
  \A k \in DOMAIN read_pre :
    IF DeleteFlag(read_pre[k].type)
      THEN /\ Idle(k) => Gone(k) /\ Silent(k)
           /\ ~Idle(k) => ~Gone(k) /\ ~Silent(k)
      ELSE Idle(k) => ~Gone(k) /\ ~Silent(k)

\* One read with an idle cell removed, an idle cell of a kind without the
\* flag emitted, and an updated cell of a kind with the flag emitted.
C4_Witness ==
  \E k1, k2, k3 \in DOMAIN read_pre :
    /\ DeleteFlag(read_pre[k1].type) /\ Idle(k1) /\ Gone(k1) /\ Silent(k1)
    /\ ~DeleteFlag(read_pre[k2].type) /\ Idle(k2) /\ ~Gone(k2) /\ ~Silent(k2)
    /\ DeleteFlag(read_pre[k3].type) /\ ~Idle(k3) /\ ~Gone(k3) /\ ~Silent(k3)

\* C5: gauge rules.  The value emitted for a gauge cell is the last absolute
\* update (0 if the cell has had none since it was created) plus the deltas
\* accepted after it; after an absolute update x and no delta it is x.
C5_GaugeRules ==
  \A i \in Emitted("gauge", "") :
    LET k == dispatched[i].key IN
      read_pre[k].type = "STATSD_GAUGE" =>
        /\ k \in DOMAIN ghost_pre
        /\ dispatched[i].vl.value
             = GaugeVal(ghost_pre[k].base + ghost_pre[k].deltas)

\* A gauge emitted a second time, after an absolute update and deltas.
C5_Witness ==
  \E i \in Emitted("gauge", "") :
    LET k == dispatched[i].key IN
      /\ read_pre[k].type = "STATSD_GAUGE"
      /\ ghost_pre[k].emitted >= 1
      /\ ghost_pre[k].base # 0
      /\ ghost_pre[k].deltas # 0
      /\ dispatched[i].vl.value.v = ghost_pre[k].base + ghost_pre[k].deltas

\* C6: set cardinality.  The value emitted for a set cell is the number of
\* distinct members in the lines accepted for it since the last read that
\* emitted it, or since it was created.
C6_SetCardinality ==
  \A i \in Emitted("objects", "") :
    LET k == dispatched[i].key IN
      /\ k \in DOMAIN ghost_pre
      /\ dispatched[i].vl.value
           = GaugeVal(Cardinality(ghost_pre[k].members) * Scale)

\* A set emitted a second time, after two lines with the same member.
C6_Witness ==
  \E i \in Emitted("objects", "") :
    LET k == dispatched[i].key IN
      /\ ghost_pre[k].emitted >= 1
      /\ ghost_pre[k].lines = 2
      /\ Cardinality(ghost_pre[k].members) = 1
      /\ dispatched[i].vl.value = GaugeVal(Scale)

\* C7: timer count.  With TimerCount on, the -count emitted for a timer cell
\* is the number of timer lines accepted for it since the read before, and
\* every timer cell left by the read has an empty histogram.
C7_TimerCount ==
  /\ conf.timer_count =>
       \A k \in KeysOfType(read_pre, "STATSD_TIMER") :
         ~Silent(k) =>
           \E i \in Emitted("gauge", "-count") :
             /\ dispatched[i].key = k
             /\ k \in DOMAIN ghost_pre
             /\ dispatched[i].vl.value = GaugeVal(ghost_pre[k].lines * Scale)
  /\ \A k \in KeysOfType(read_post, "STATSD_TIMER") :
       read_post[k].latency.samples = <<>>

\* A timer emitted with a count of 2 for two lines of equal scaled duration,
\* one of them with a sample rate.
C7_Witness ==
  \E i \in Emitted("gauge", "-count") :
    LET k == dispatched[i].key IN
      /\ ghost_pre[k].lines = 2
      /\ dispatched[i].vl.value = GaugeVal(2 * Scale)
      /\ read_pre[k].latency.samples = <<10000, 10000>>
      /\ read_post[k].latency.samples = <<>>

\* C8: malformed-line isolation.  A malformed line is refused and leaves the
\* table as it was; a well-formed line is accepted and counted as an update
\* of its cell, whatever lines surround it; and when the datagram is done
\* every non-empty line of it has had its turn.
C8_MalformedIsolation ==
  /\ line_log.n > 0 =>
       IF line_log.intent.kind = "invalid"
         THEN line_log.status # 0 /\ line_log.after = line_log.before
         ELSE
           LET k == MetricKey(line_log.intent.name,
                              KindType[line_log.intent.kind])
               was == IF k \in DOMAIN line_log.before
                        THEN line_log.before[k].updates_num ELSE 0
           IN /\ line_log.status = 0
              /\ k \in DOMAIN line_log.after
              /\ line_log.after[k].updates_num = was + 1
  /\ net_buffer.null => net_intents = <<>>

\* A well-formed line applied right after a malformed line of the same
\* datagram was refused.
C8_Witness ==
  /\ line_log.n >= 3
  /\ line_log.prev_status # 0
  /\ line_log.intent.kind = "s"
  /\ line_log.status = 0
  /\ line_log.after # line_log.before
  /\ net_buffer.null
  /\ KeysOfType(metrics_tree, "STATSD_COUNTER") # {}
  /\ KeysOfType(metrics_tree, "STATSD_SET") # {}

\* The value field of the line starts with a sign.
SignedValue(line) ==
  \E i \in 1..(Len(line) - 1) :
    /\ line[i] = ":"
    /\ \A j \in 1..(i - 1) : line[j] # ":"
    /\ line[i + 1] \in {"+", "-"}

\* C19: a sign on the value is for gauges only.  A counter or timer line
\* whose value starts with '+' or '-' is refused and leaves the table as it
\* was.
C19_SignGaugesOnly ==
  (/\ line_log.n > 0
   /\ line_log.intent.kind \in {"c", "ms"}
   /\ SignedValue(line_log.text))
    => line_log.status # 0 /\ line_log.after = line_log.before

\* C20: with CounterGauge on, a read emits for every counter cell a gauge
\* equal to the residual the cell had when the read began, and leaves the
\* residual at 0.
C20_GaugeThenReset ==
  conf.counter_gauge =>
    \A k \in KeysOfType(read_pre, "STATSD_COUNTER") :
      /\ \E i \in Emitted("gauge", "") :
           /\ dispatched[i].key = k
           /\ dispatched[i].vl.value = GaugeVal(read_pre[k].value)
      /\ k \in DOMAIN read_post
      /\ read_post[k].value = 0

\* The line has a third '|' field.
HasThirdField(line) == Cardinality({ i \in DOMAIN line : line[i] = "|" }) >= 2

\* C18: sample-rate validity.  A line with a third field is accepted only if
\* it is a counter or timer line whose third field is '@' followed by a
\* finite number in (0, 1]; with the field on a gauge or set line, with a rate of 0
\* or with a rate above 1, the line is refused and the table stays as it was.
C18_RateValidity ==
  (line_log.n > 0 /\ HasThirdField(line_log.text)) =>
    \A c \in RateCases :
      c.text = line_log.text =>
        /\ line_log.status = 0 =>
             /\ c.kind \in {"c", "ms"}
             /\ c.at /\ c.numeric /\ c.finite
             /\ c.rate > 0 /\ c.rate <= Scale
        /\ (\/ c.kind \in {"g", "s"}
            \/ c.numeric /\ c.finite /\ c.rate = 0
            \/ c.numeric /\ c.finite /\ c.rate > Scale)
             => line_log.status # 0 /\ line_log.after = line_log.before
        /\ c.intent # NoIntent => line_log.status = 0

\* A counter line with rate 1 accepted into a table that a line with a rate
\* above 1 had just left alone.
C18_Witness ==
  /\ line_log.n = 2
  /\ line_log.prev_status # 0
  /\ line_log.status = 0
  /\ line_log.text = <<"a", ":", "3", "|", "c", "|", "@", "1">>
  /\ line_log.before = <<>>
  /\ line_log.after # <<>>

\* The cells statsd_read has visited so far, in its order.
Visited ==
  SubSeq(SortedKeys(DOMAIN read_iter.start), 1,
         Cardinality(DOMAIN read_iter.start) - Len(read_iter.todo))

\* C12: statsd_read is atomic with respect to the updates.  While it stands
\* between its lock and its unlock the listener is not inside an update and
\* the table is the one the read found, changed by the read alone; and what
\* a read has emitted and left behind is what the table it found gives.
C12_ReadAtomic ==
  /\ read_iter.pc = "iterate" =>
       /\ metrics_lock = "read"
       /\ net_pc # "locked"
       /\ metrics_tree
            = ReadLoop(Visited,
                       [tree |-> read_iter.start, out |-> <<>>,
                        to_be_deleted |-> <<>>], now).tree
  /\ n_reads > 0 =>
       /\ dispatched = statsd_read_result(read_pre, now).out
       /\ read_post = statsd_read_result(read_pre, now).tree

\* A read standing in the middle of a table of two cells, the first of them
\* emitted, while a line that would update the table waits for the lock.
C12_Witness ==
  /\ read_iter.pc = "iterate"
  /\ Len(read_iter.todo) = 1
  /\ Cardinality(DOMAIN read_iter.start) = 2
  /\ read_iter.out # <<>>
  /\ ~net_buffer.null
  /\ LineUpdates
  /\ n_reads > 0

\* C13: once statsd_shutdown has set the flag and sent the signal, its
\* pthread_join returns.
C13_ShutdownJoins == (shutdown_pc = "join") ~> (shutdown_pc = "joined")


\* What the read in progress, or the last read, has dispatched so far.
StampLog == IF read_iter.pc = "iterate" THEN read_iter.out ELSE dispatched

\* The dispatches of the log made for a timer cell.
TimerCalls ==
  { i \in DOMAIN StampLog :
      /\ "at" \in DOMAIN StampLog[i]
      /\ StampLog[i].key[1] = TypeTag["STATSD_TIMER"] }

\* C21: the measurements dispatched for one timer cell in one read carry one
\* timestamp, the clock as it was when the cell was reached, whatever the
\* clock is at each dispatch.
C21_TimerOneTimestamp ==
  \A i, j \in TimerCalls :
    StampLog[i].key = StampLog[j].key =>
      /\ StampLog[i].vl.time = StampLog[j].vl.time
      /\ StampLog[i].vl.time = StampLog[i].begun
      /\ StampLog[i].begun <= StampLog[i].at

\* A timer cell whose six measurements were dispatched with the clock
\* advancing after the first of them.
C21_Witness ==
  /\ read_iter.pc = "idle"
  /\ \E i, j \in TimerCalls :
       /\ StampLog[i].key = StampLog[j].key
       /\ StampLog[i].vl.suffix = "-average"
       /\ StampLog[j].vl.suffix = "-count"
       /\ StampLog[i].at < StampLog[j].at
       /\ StampLog[i].vl.time = StampLog[j].vl.time
       /\ Cardinality({ k \in TimerCalls : StampLog[k].key = StampLog[i].key })
            = 6

\* C22: the packet size stored is within 1024..65535 and the TTL stored is 0
\* (never set) or within 1..255, before and after write_influxdb_udp_init; a
\* TimeToLive or MaxPacketSize directive with a value outside its range, or
\* with no number, returns -1 and leaves both stored values as they were,
\* and one with a value inside its range stores it.
C22_ConfigRanges ==
  /\ wifxudp_config_packet_size \in 1024..65535
  /\ wifxudp_config_ttl \in 0..255
  /\ last_call.op \in {"TimeToLive", "MaxPacketSize"} =>
       LET lo == IF last_call.op = "TimeToLive" THEN 1 ELSE 1024
           hi == IF last_call.op = "TimeToLive" THEN 255 ELSE 65535
           inside == /\ last_call.got.status = 0
                     /\ last_call.got.tmp >= lo
                     /\ last_call.got.tmp <= hi
       IN IF inside
            THEN /\ last_call.status = 0
                 /\ last_call.got.tmp = (IF last_call.op = "TimeToLive"
                                           THEN wifxudp_config_ttl
                                           ELSE wifxudp_config_packet_size)
            ELSE /\ last_call.status = -1
                 /\ ConfigStored = last_call.pre

\* MaxPacketSize 65536 refused after 1024 and TimeToLive 255 were stored.
C22_Witness ==
  /\ last_call.op = "MaxPacketSize"
  /\ last_call.got = [status |-> 0, tmp |-> 65536]
  /\ last_call.status = -1
  /\ wifxudp_config_packet_size = 1024
  /\ wifxudp_config_ttl = 255

MainDispatch(type, vl) ==
  CASE type = "STATSD_COUNTER" -> vl.type = "derive"
    [] type = "STATSD_GAUGE" -> vl.type = "gauge" /\ vl.suffix = ""
    [] type = "STATSD_SET" -> vl.type = "objects"
    [] type = "STATSD_TIMER" -> vl.type = "latency" /\ vl.suffix = "-average"

\* How many times the dispatches of `out' emit the cell k of this type.
EmissionsOf(out, k, type) ==
  Cardinality({ i \in DispatchesOf(out, k) : MainDispatch(type, out[i].vl) })

\* C24: deferred deletion.  While statsd_read iterates, the table has the
\* cells it had when the read began, the cells marked for deletion among
\* them, no cell is marked twice and no cell is both marked and emitted;
\* when the read is over, each cell the read found was either emitted once
\* and is still there with its updates reset, or was not emitted and is gone.
C24_DeferredDeletion ==
  /\ read_iter.pc = "iterate" =>
       /\ DOMAIN metrics_tree = DOMAIN read_iter.start
       /\ Len(read_iter.to_be_deleted)
            = Cardinality(SeqRange(read_iter.to_be_deleted))
       /\ \A k \in SeqRange(read_iter.to_be_deleted) :
            DispatchesOf(read_iter.out, k) = {}
       /\ \A k \in SeqRange(Visited) :
            k \in SeqRange(read_iter.to_be_deleted)
              \/ EmissionsOf(read_iter.out, k, read_iter.start[k].type) = 1
  /\ n_reads > 0 =>
       \A k \in DOMAIN read_pre :
         IF Gone(k) THEN Silent(k)
         ELSE /\ EmissionsOf(dispatched, k, read_pre[k].type) = 1
              /\ read_post[k].updates_num = 0

\* The iteration is over and the removals are still to come: of three cells,
\* one is marked and still in the table, the others were emitted.
C24_Witness ==
  /\ read_iter.pc = "iterate"
  /\ read_iter.todo = <<>>
  /\ Cardinality(DOMAIN read_iter.start) = 3
  /\ Len(read_iter.to_be_deleted) = 1
  /\ read_iter.to_be_deleted[1] \in DOMAIN metrics_tree
  /\ EmissionsOf(read_iter.out, Visited[3], read_iter.start[Visited[3]].type)
       = 1

\* C25: reset at flush.  Every cell a read leaves in the table has no
\* updates counted; a set cell has no members and a timer cell has no
\* samples; a counter cell holds the total the read dispatched for it and a
\* gauge cell the value the read dispatched for it, which is the value it had.
C25_ResetAtFlush ==
  n_reads > 0 =>
    \A k \in DOMAIN read_post :
      /\ read_post[k].updates_num = 0
      /\ read_post[k].type = "STATSD_SET" => read_post[k].set.members = {}
      /\ read_post[k].type = "STATSD_TIMER" =>
           read_post[k].latency.samples = <<>>
      /\ read_post[k].type = "STATSD_COUNTER" =>
           \E i \in DispatchesOf(dispatched, k) :
             dispatched[i].vl.value = DeriveVal(read_post[k].counter)
      /\ read_post[k].type = "STATSD_GAUGE" =>
           /\ read_post[k].value = read_pre[k].value
           /\ \E i \in DispatchesOf(dispatched, k) :
                dispatched[i].vl.value = GaugeVal(read_post[k].value)

\* A read that found a counter, a set with a member and a timer with a
\* sample, all updated, and left the three of them.
C25_Witness ==
  /\ n_reads > 0
  /\ \E c \in KeysOfType(read_post, "STATSD_COUNTER") :
       read_pre[c].updates_num > 0 /\ read_post[c].counter = 3
  /\ \E k \in KeysOfType(read_post, "STATSD_SET") :
       read_pre[k].updates_num > 0 /\ read_pre[k].set.members # {}
  /\ \E t \in KeysOfType(read_post, "STATSD_TIMER") :
       read_pre[t].updates_num > 0 /\ read_pre[t].latency.samples # <<>>

\* C26: right after a read that emitted a counter cell, the cell's residual
\* is a finite number of absolute value at most one half, with CounterSum
\* and CounterGauge on or off.
C26_ResidualWithinHalf ==
  \A k \in KeysOfType(read_post, "STATSD_COUNTER") :
    ~Silent(k) =>
      /\ isfinite(read_post[k].value)
      /\ 2 * Abs(read_post[k].value) <= Scale

\* C27: between the calls on it, an endpoint has a descriptor exactly when it
\* has a cached address, whatever the connects and sends before ended with.
C27_SocketIffAddress ==
  \A i \in DOMAIN sending_sockets :
    sending_sockets[i].fd >= 0 <=> sending_sockets[i].addr = "cached"

\* The last two flushes: in the first the endpoint, connected and stale,
\* resolved again, closed its socket and did not get a new one; in the
\* second it connected and sent.
C27_Witness ==
  /\ Len(wire) = 2
  /\ wire[1].socks[1].fd >= 0
  /\ wire[1].events[Len(wire[1].events)].call = "connect_failed"
  /\ wire[2].socks[1].fd = -1
  /\ wire[2].socks[1].addr = "NULL"
  /\ wire[2].events[Len(wire[2].events)].call = "sendto"
  /\ sending_sockets[1].fd >= 0

\* C28: an update dropped because an allocation failed leaves the table as
\* it was, and a read emits only cells that an accepted update was made for.
C28_FailureLeavesTable ==
  /\ (line_log.n > 0 /\ line_log.mem # "ok" /\ line_log.status # 0) =>
       line_log.after = line_log.before
  /\ \A i \in DOMAIN dispatched : dispatched[i].key \in DOMAIN ghost_pre

\* The cells the last line changed or created.
Touched ==
  { k \in DOMAIN line_log.after :
      k \notin DOMAIN line_log.before
        \/ line_log.after[k] # line_log.before[k] }

\* C29: an accepted line changes one cell and leaves the others as they
\* were, and all the accepted lines that changed a cell had the same kind and
\* the same name.
C29_CellPerKindAndName ==
  /\ (line_log.n > 0 /\ line_log.status = 0) =>
       /\ Cardinality(Touched) = 1
       /\ DOMAIN line_log.before \subseteq DOMAIN line_log.after
  /\ \A k \in DOMAIN ghost : Cardinality(ghost[k].owners) <= 1

\* The dispatches of the last read for cell k with this type.
EmittedFor(k, type) ==
  { i \in DispatchesOf(dispatched, k) : dispatched[i].vl.type = type }

\* C30: what a read does to a counter cell is given by the cell alone, the
\* same under every setting of CounterSum and CounterGauge: the residual
\* loses its nearest integer, the total gains it, and the new total is
\* dispatched once as a derive.  The options add one "count" and one
\* "gauge" dispatch and nothing else.
C30_OptionsOnlyAdd ==
  \A k \in KeysOfType(read_pre, "STATSD_COUNTER") :
    /\ k \in DOMAIN read_post
    /\ read_post[k].value = read_pre[k].value - nearbyint(read_pre[k].value)
    /\ read_post[k].counter
         = read_pre[k].counter + nearbyint(read_pre[k].value) \div Scale
    /\ Cardinality(EmittedFor(k, "derive")) = 1
    /\ \A i \in EmittedFor(k, "derive") :
         dispatched[i].vl.value = DeriveVal(read_post[k].counter)
    /\ Cardinality(EmittedFor(k, "count")) = IF conf.counter_sum THEN 1 ELSE 0
    /\ Cardinality(EmittedFor(k, "gauge")) = IF conf.counter_gauge THEN 1 ELSE 0
    /\ Cardinality(DispatchesOf(dispatched, k))
         = Cardinality(EmittedFor(k, "derive"))
             + Cardinality(EmittedFor(k, "count"))
             + Cardinality(EmittedFor(k, "gauge"))

\* A second read under CounterGauge alone, of a cell with a total from the
\* first read and a residual that is not a whole number: the read leaves a
\* residual other than 0.
C30_Witness ==
  /\ conf.counter_gauge /\ ~conf.counter_sum
  /\ n_reads = 2
  /\ \E k \in KeysOfType(read_pre, "STATSD_COUNTER") :
       /\ read_pre[k].counter > 0
       /\ read_pre[k].value % Scale # 0
       /\ read_post[k].value # 0
       /\ read_post[k].counter > read_pre[k].counter
       /\ EmittedFor(k, "gauge") # {}

\* C31: every buffer handed to the endpoints, by write, by an explicit flush
\* or by shutdown, holds at least one byte.
C31_NoEmptyPayload ==
  \A i \in DOMAIN flushed : flushed[i].size > 0

\* The endpoint after flush r.
EndpointAfter(r) ==
  IF r < Len(wire) THEN wire[r + 1].socks[1] ELSE sending_sockets[1]

\* Flush r found the endpoint connected and stale, and getaddrinfo failed.
StaleResolveFailed(r) ==
  /\ wire[r].socks[1].fd >= 0
  /\ Reconnect(wire[r].socks[1], wire[r].t)
  /\ wire[r].conn[1] = "gai_fail"

\* C32: when a connected, stale endpoint fails to resolve again, it is left
\* as it was (socket, address and deadline), nothing is sent in that flush,
\* and the next flush starts with another getaddrinfo.
C32_FailedResolveKeepsSocket ==
  \A r \in DOMAIN wire :
    StaleResolveFailed(r) =>
      /\ EndpointAfter(r) = wire[r].socks[1]
      /\ Len(wire[r].events) = 2
      /\ wire[r].events[1].call = "getaddrinfo"
      /\ wire[r].events[2].call = "connect_failed"
      /\ r < Len(wire) => FirstCall(r + 1) = "getaddrinfo"

\* Two flushes of a stale endpoint: getaddrinfo failed in the first, and in
\* the second it succeeded, the flush was sent on the new socket and the
\* deadline moved.
C32_Witness ==
  /\ Len(wire) = 2
  /\ StaleResolveFailed(1)
  /\ wire[2].conn[1] = "ok"
  /\ wire[2].events[Len(wire[2].events)].call = "sendto"
  /\ sending_sockets[1].fd >= 0
  /\ sending_sockets[1].next_resolve_reconnect
       = wire[2].t + sending_sockets[1].resolve_interval
  /\ sending_sockets[1].next_resolve_reconnect
       > wire[1].socks[1].next_resolve_reconnect

\* The calls flush r made for endpoint i, in order.
CallsFor(r, i) ==
  SelectSeq(wire[r].events, LAMBDA ev : ev.node = wire[r].socks[i].node)

NeverStale(se) ==
  /\ se.resolve_interval = 0
  /\ se.next_resolve_reconnect = 0
  /\ \A t \in 0..(MaxTime + 1) : ~Reconnect(se, t)

\* C33: from the configuration on, every endpoint has resolve_interval 0 and
\* next_resolve_reconnect 0 and is stale at no time; a flush resolves an
\* endpoint only when it finds it without a socket, and an endpoint that had
\* a socket at one flush is without one at the next only when the first
\* flush ended in a failed sendto for it.
C33_NeverStale ==
  /\ \A i \in DOMAIN sending_sockets : NeverStale(sending_sockets[i])
  /\ \A r \in DOMAIN wire : \A i \in DOMAIN wire[r].socks :
       /\ NeverStale(wire[r].socks[i])
       /\ CallsFor(r, i) # <<>>
       /\ (CallsFor(r, i)[1].call = "getaddrinfo") = (wire[r].socks[i].fd < 0)
       /\ (r < Len(wire) /\ wire[r].socks[i].fd >= 0
             /\ wire[r + 1].socks[i].fd < 0)
            => CallsFor(r, i)[Len(CallsFor(r, i))].call = "sendto_failed"

\* The endpoint connected in an earlier flush; a flush found it connected
\* and sent on the socket it had, sendto failed for good, and a later flush,
\* the clock having moved, resolved the name again.
C33_Witness ==
  /\ Len(wire) = 2
  /\ wire[1].socks[1].fd >= 0
  /\ CallsFor(1, 1)[1].call # "getaddrinfo"
  /\ CallsFor(1, 1)[Len(CallsFor(1, 1))].call = "sendto_failed"
  /\ wire[2].t > wire[1].t
  /\ CallsFor(2, 1)[1].call = "getaddrinfo"
====
